---------------------------- MODULE Spec2Model ----------------------------
(***************************************************************************)
(* Rent-roll processor: format detection (format_detector.py), table       *)
(* location and column normalisation (data_loader.py), reshaping           *)
(* (processing.py), validation (validator.py) and the HTTP entry point     *)
(* (main.py), as one request's run through the pipeline.                   *)
(*                                                                         *)
(* Text is modelled by TLA+ strings, character for character.  A missing   *)
(* cell (pandas NaN / None) is the value NaN; a number is an integer       *)
(* count of hundredths (1500 is 150000), wrapped as <<n>>, with <<>> for   *)
(* a missing number.                                                       *)
(***************************************************************************)
EXTENDS Integers, Sequences, FiniteSets, TLC

VARIABLES
    pc,             \* position in the request: which step runs next
    kind,           \* "excel" or "csv": the branch of load_and_prepare_dataframe
    filename,       \* uploaded file name ("" when none)
    file_content,   \* decoded text of a CSV upload ("" for a spreadsheet)
    grid,           \* decoded spreadsheet grid, read with header=None
    format_info,    \* detection_result of detect_format
    format_scores,  \* detect_format's per-profile scores
    raw_df,         \* long table returned by load_and_prepare_dataframe
    processed_df,   \* wide table returned by process_rent_roll_vectorized
    validation,     \* report returned by validate_rent_roll
    exc,            \* exception raised by the step that ran last ("none")
    response        \* HTTP response of process_rent_roll_http

vars == <<pc, kind, filename, file_content, grid, format_info, format_scores,
          raw_df, processed_df, validation, exc, response>>

-----------------------------------------------------------------------------
(* Bounds of the model.                                                    *)

\* phrases in a text given to the detector
MaxPhrases == 2

\* data rows in an uploaded sheet
MaxDataRows == 2

\* rows in a long table given to the reshaper
MaxRows == 3

\* rows in a long table with unit attributes given to the reshaper
MaxBlockRows == 3

\* records in a wide table given to the validator
MaxWideRows == 3

\* column names in a table given to the normalizer
MaxColumns == 2

\* rows under the header rows of a sheet given to the table locator
MaxBodyRows == 3

-----------------------------------------------------------------------------
(* Python str operations.                                                  *)

NaN == "<NaN>"

isna(v) == v = NaN

CharAt(s, i) == SubSeq(s, i, i)

UpperAlpha == "ABCDEFGHIJKLMNOPQRSTUVWXYZ"

LowerAlpha == "abcdefghijklmnopqrstuvwxyz"

Digits == "0123456789"

CharsOf(s) == {CharAt(s, i) : i \in 1..Len(s)}

UpperChars == CharsOf(UpperAlpha)

LowerChars == CharsOf(LowerAlpha)

DigitChars == CharsOf(Digits)

WhitespaceChars == {" ", "\t", "\n", "\r"}

\* \w of Python's re on the characters the model uses
WordChars == UpperChars \cup LowerChars \cup DigitChars \cup {"_"}

LowerChar(c) ==
    IF c \in UpperChars
    THEN CharAt(LowerAlpha, CHOOSE i \in 1..26 : CharAt(UpperAlpha, i) = c)
    ELSE c

UpperChar(c) ==
    IF c \in LowerChars
    THEN CharAt(UpperAlpha, CHOOSE i \in 1..26 : CharAt(LowerAlpha, i) = c)
    ELSE c

\* the concatenation of F(s, lo), ..., F(s, hi)
RECURSIVE MapChars(_, _, _, _)
MapChars(F(_, _), s, lo, hi) ==
    IF lo > hi THEN ""
    ELSE IF lo = hi THEN F(s, lo)
    ELSE LET mid == (lo + hi) \div 2
         IN  MapChars(F, s, lo, mid) \o MapChars(F, s, mid + 1, hi)

LowerAt(s, i) == LowerChar(CharAt(s, i))

UpperAt(s, i) == UpperChar(CharAt(s, i))

\* str.lower
Lower(s) == MapChars(LowerAt, s, 1, Len(s))

\* str.upper
Upper(s) == MapChars(UpperAt, s, 1, Len(s))

\* str.strip
Strip(s) ==
    LET n == Len(s)
        solid(i) == CharAt(s, i) \notin WhitespaceChars
    IN  IF \A i \in 1..n : ~solid(i) THEN ""
        ELSE LET first == CHOOSE i \in 1..n : solid(i) /\ \A j \in 1..(i - 1) : ~solid(j)
                 last  == CHOOSE i \in 1..n : solid(i) /\ \A j \in (i + 1)..n : ~solid(j)
             IN  SubSeq(s, first, last)

\* `p in s`
Contains(s, p) == \E i \in 0..(Len(s) - Len(p)) : SubSeq(s, i + 1, i + Len(p)) = p

\* s.startswith(p)
StartsWith(s, p) == Len(s) >= Len(p) /\ SubSeq(s, 1, Len(p)) = p

\* sep.join(parts)
RECURSIVE Join(_, _)
Join(parts, sep) ==
    IF parts = <<>> THEN ""
    ELSE IF Len(parts) = 1 THEN parts[1]
    ELSE LET mid == Len(parts) \div 2
         IN  Join(SubSeq(parts, 1, mid), sep) \o sep
               \o Join(SubSeq(parts, mid + 1, Len(parts)), sep)

\* s.replace(old, new) for a one-character old
ReplaceCharAt(s, i, old, new) == IF CharAt(s, i) = old THEN new ELSE CharAt(s, i)

ReplaceChar(s, old, new) ==
    LET F(t, i) == ReplaceCharAt(t, i, old, new)
    IN  MapChars(F, s, 1, Len(s))

\* s.split(sep) for a one-character sep
Split(s, sep) ==
    LET n    == Len(s)
        cuts == {i \in 1..n : CharAt(s, i) = sep}
        \* the k-th field lies between the (k-1)-th and the k-th separator
        before(i) == Cardinality({c \in cuts : c < i})
        start(k) == IF k = 1 THEN 1
                    ELSE (CHOOSE c \in cuts : before(c) = k - 2) + 1
        stop(k)  == IF k = Cardinality(cuts) + 1 THEN n
                    ELSE (CHOOSE c \in cuts : before(c) = k - 1) - 1
    IN  [k \in 1..(Cardinality(cuts) + 1) |-> SubSeq(s, start(k), stop(k))]

\* the sum of a sequence of integers
RECURSIVE SumSeq(_)
SumSeq(s) == IF s = <<>> THEN 0 ELSE Head(s) + SumSeq(Tail(s))

-----------------------------------------------------------------------------
(* format_detector.py                                                      *)

yardi_profile ==
    [ identifiers |->
        <<"yardi",
          "voyager",
          "rent roll report">>,
      header_markers |->
        <<"unit",
          "unit type",
          "resident">>,
      section_markers |->
        <<"current/notice/vacant residents",
          "current/notice/vacant",
          "current residents",
          "current / notice / vacant residents">>,
      specific_patterns |->
        <<"unit,unit type,sq ft,resident,name",
          "unit,unit type,unit,resident,name",
          "unit\\s+unit\\s+type\\s+sq\\s+ft\\s+resident",
          "unit.*unit\\s+type.*resident",
          "current/notice/vacant residents",
          "current / notice / vacant residents",
          "summary groups",
          "future residents/applicants",
          "future residents / applicants",
          "rent roll with lease charges",
          "rent roll report",
          "charge code",
          "resident deposit",
          "other deposit",
          "move-in",
          "lease expiration">>,
      column_patterns |->
        <<"charge_code",
          "resident_deposit",
          "other_deposit",
          "move_in",
          "lease_expiration">>,
      has_two_row_header |-> TRUE,
      column_mappings |->
        <<<<"unit_sq_ft", "sq_ft">>,
          <<"unit_sqft", "sq_ft">>,
          <<"name", "resident_name">>,
          <<"resident", "resident_code">>>> ]

realpage_profile ==
    [ identifiers |->
        <<"realpage",
          "onesite",
          "site name",
          "property name">>,
      header_markers |->
        <<"unit",
          "resident",
          "lease">>,
      section_markers |->
        <<"resident list",
          "current residents",
          "occupied units">>,
      specific_patterns |->
        <<"unit,floorplan,resident,lease start,lease end",
          "unit,floor plan,resident",
          "property summary report",
          "resident aging summary",
          "unit status report",
          "lease start",
          "lease end",
          "floor plan">>,
      column_patterns |->
        <<"floorplan",
          "floor_plan",
          "lease_start",
          "lease_end">>,
      has_two_row_header |-> TRUE,
      column_mappings |->
        <<<<"apartment", "unit">>,
          <<"tenant", "resident_name">>,
          <<"lease_start", "move_in">>,
          <<"lease_end", "lease_expiration">>,
          <<"square_feet", "sq_ft">>,
          <<"floor_plan", "unit_type">>,
          <<"floorplan", "unit_type">>>> ]

appfolio_profile ==
    [ identifiers |->
        <<"appfolio",
          "property management",
          "buildium">>,
      header_markers |->
        <<"unit",
          "tenant",
          "rent">>,
      section_markers |->
        <<"occupied units",
          "vacant units",
          "all units">>,
      specific_patterns |->
        <<"unit,tenant,rent,security deposit",
          "unit,tenant,lease start,lease end,rent",
          "unit,building,tenant,rent",
          "security deposit",
          "pet deposit",
          "monthly rent">>,
      column_patterns |->
        <<"tenant",
          "security_deposit",
          "pet_deposit",
          "monthly_rent">>,
      has_two_row_header |-> FALSE,
      column_mappings |->
        <<<<"tenant", "resident_name">>,
          <<"rent", "market_rent">>,
          <<"monthly_rent", "market_rent">>,
          <<"security_deposit", "resident_deposit">>,
          <<"lease_start", "move_in">>,
          <<"lease_end", "lease_expiration">>>> ]

entrata_profile ==
    [ identifiers |->
        <<"entrata",
          "lease summary",
          "property solutions">>,
      header_markers |->
        <<"apartment",
          "resident",
          "lease term">>,
      section_markers |->
        <<"current residents",
          "notice residents",
          "vacant apartments">>,
      specific_patterns |->
        <<"apartment,resident,lease from,lease to",
          "apartment,floor plan,resident",
          "unit status report",
          "resident summary",
          "lease from",
          "lease to",
          "notice date">>,
      column_patterns |->
        <<"apartment",
          "lease_from",
          "lease_to",
          "notice_date">>,
      has_two_row_header |-> TRUE,
      column_mappings |->
        <<<<"apartment", "unit">>,
          <<"resident", "resident_name">>,
          <<"lease_from", "move_in">>,
          <<"lease_to", "lease_expiration">>,
          <<"unit_sqft", "sq_ft">>>> ]

mri_profile ==
    [ identifiers |->
        <<"mri",
          "management reports",
          "mri software">>,
      header_markers |->
        <<"unit code",
          "tenant name",
          "lease from">>,
      section_markers |->
        <<"residential units",
          "commercial units",
          "retail units">>,
      specific_patterns |->
        <<"unit code,tenant name,lease from,lease to",
          "unit code,unit type,tenant",
          "property rent roll",
          "tenant name",
          "unit code">>,
      column_patterns |->
        <<"unit_code",
          "tenant_name",
          "lease_from",
          "lease_to">>,
      has_two_row_header |-> FALSE,
      column_mappings |->
        <<<<"unit_code", "unit">>,
          <<"tenant_name", "resident_name">>,
          <<"lease_from", "move_in">>,
          <<"lease_to", "lease_expiration">>,
          <<"unit_area", "sq_ft">>>> ]

FORMAT_PROFILES ==
    [ yardi |-> yardi_profile, realpage |-> realpage_profile,
      appfolio |-> appfolio_profile, entrata |-> entrata_profile,
      mri |-> mri_profile ]

\* iteration order of the FORMAT_PROFILES dict
ProfileOrder == <<"yardi", "realpage", "appfolio", "entrata", "mri">>

\* re.sub(r'\s+', ' ', text): every run of whitespace becomes one space
CollapseAt(s, i) ==
    IF CharAt(s, i) \in WhitespaceChars
    THEN (IF i > 1 /\ CharAt(s, i - 1) \in WhitespaceChars THEN "" ELSE " ")
    ELSE CharAt(s, i)

\* re.sub(r'[^\w\s/\-,]', '', text)
KeepAt(s, i) ==
    IF CharAt(s, i) \in WordChars \cup WhitespaceChars \cup {"/", "-", ","}
    THEN CharAt(s, i)
    ELSE ""

clean_text_for_comparison(text) ==
    IF isna(text) THEN ""
    ELSE LET t1 == Strip(Lower(text))
             t2 == MapChars(CollapseAt, t1, 1, Len(t1))
         IN  MapChars(KeepAt, t2, 1, Len(t2))

\* the cells of a grid row that are not missing
NotNaCells(row) == SelectSeq(row, LAMBDA v : ~isna(v))

CleanCells(row) ==
    LET cells == NotNaCells(row)
    IN  [i \in 1..Len(cells) |-> clean_text_for_comparison(cells[i])]

\* the default column labels 0, 1, ... of a frame read with header=None
ColumnLabel(i) == IF i < 10 THEN CharAt(Digits, i + 1) ELSE "1" \o CharAt(Digits, i - 9)

GridWidth(df) == IF df = <<>> THEN 0 ELSE Len(df[1])

extract_text_from_dataframe(df, max_rows) ==
    LET n        == IF max_rows < Len(df) THEN max_rows ELSE Len(df)
        col_text == Join([i \in 1..GridWidth(df) |-> ColumnLabel(i - 1)], " ")
        rowpart(k) ==
            LET idx == (k + 1) \div 2
            IN  IF k % 2 = 1 THEN Join(CleanCells(df[idx]), " ")
                ELSE Join(CleanCells(df[idx]), ",")
    IN  Join(<<col_text>> \o [k \in 1..(2 * n) |-> rowpart(k)], "\n")

\* file_content[:10000]
ContentPreview(content) ==
    IF Len(content) > 10000 THEN SubSeq(content, 1, 10000) ELSE content

\* detect_format's search_text; "" stands for an argument that is None
SearchText(content, df, fname) ==
    LET parts ==
            (IF fname # "" THEN <<clean_text_for_comparison(fname)>> ELSE <<>>)
         \o (IF content # "" THEN <<clean_text_for_comparison(ContentPreview(content))>> ELSE <<>>)
         \o (IF df # <<>> /\ GridWidth(df) > 0
             THEN <<extract_text_from_dataframe(df, 30)>> ELSE <<>>)
    IN  Lower(Join(parts, "\n"))

\* the cleaned form of every pattern of every profile
CleanedProfiles ==
    [p \in DOMAIN FORMAT_PROFILES |->
        [k \in {"section_markers", "specific_patterns", "header_markers"} |->
            [i \in 1..Len(FORMAT_PROFILES[p][k]) |->
                clean_text_for_comparison(FORMAT_PROFILES[p][k][i])]]]

\* whether detect_format counts specific pattern i of profile p: a pattern
\* that starts with the letter r is searched as the regular expression
\* pattern[1:], every other one as its cleaned text
SpecificPatternHit(p, i, search_text) ==
    LET pattern == FORMAT_PROFILES[p].specific_patterns[i]
    IN  IF StartsWith(pattern, "r")
        THEN Contains(search_text, SubSeq(pattern, 2, Len(pattern)))
        ELSE Contains(search_text, CleanedProfiles[p]["specific_patterns"][i])

CountHits(n, Hit(_)) == Cardinality({i \in 1..n : Hit(i)})

\* the score detect_format gives profile p
ProfileScore(p, search_text) ==
    LET prof == FORMAT_PROFILES[p]
    IN    5 * CountHits(Len(prof.specific_patterns),
                        LAMBDA i : SpecificPatternHit(p, i, search_text))
        + 2 * CountHits(Len(prof.column_patterns),
                        LAMBDA i : Contains(search_text, prof.column_patterns[i]))
        + 4 * CountHits(Len(prof.section_markers),
                        LAMBDA i : Contains(search_text, CleanedProfiles[p]["section_markers"][i]))
        + 3 * CountHits(Len(prof.identifiers),
                        LAMBDA i : Contains(search_text, prof.identifiers[i]))
        + 1 * CountHits(Len(prof.header_markers),
                        LAMBDA i : Contains(search_text, CleanedProfiles[p]["header_markers"][i]))

FormatScores(search_text) ==
    [p \in DOMAIN FORMAT_PROFILES |-> ProfileScore(p, search_text)]

\* a choice of winner that takes the last of the profiles with the highest
\* score; not the program's rule, which BestMatch states
LastBestMatch(scores) ==
    LET i == CHOOSE i \in 1..Len(ProfileOrder) :
                 /\ \A j \in 1..Len(ProfileOrder) :
                        scores[ProfileOrder[j]] <= scores[ProfileOrder[i]]
                 /\ \A j \in (i + 1)..Len(ProfileOrder) :
                        scores[ProfileOrder[j]] < scores[ProfileOrder[i]]
    IN  ProfileOrder[i]

\* max(format_scores.items(), key=score): the first profile, in dict order,
\* that no other profile outscores
BestMatch(scores) ==
    LET i == CHOOSE i \in 1..Len(ProfileOrder) :
                 /\ \A j \in 1..Len(ProfileOrder) :
                        scores[ProfileOrder[j]] <= scores[ProfileOrder[i]]
                 /\ \A j \in 1..(i - 1) :
                        scores[ProfileOrder[j]] < scores[ProfileOrder[i]]
    IN  ProfileOrder[i]

MIN_DETECTION_SCORE == 3

Min(a, b) == IF a < b THEN a ELSE b

Max(a, b) == IF a > b THEN a ELSE b

\* a detector that calls every score below MIN_DETECTION_SCORE unknown; not
\* the program's rule, which DetectionResult states
ThresholdDetectionResult(scores) ==
    IF scores[BestMatch(scores)] >= MIN_DETECTION_SCORE
    THEN [format |-> BestMatch(scores),
          confidence |-> Min(100, scores[BestMatch(scores)] * 5),
          profile |-> BestMatch(scores)]
    ELSE [format |-> "generic", confidence |-> 0, profile |-> "None"]

\* the detection_result detect_format builds from the scores; profile is the
\* name of the profile the result carries, "None" when it carries none
DetectionResult(scores) ==
    LET best_format == BestMatch(scores)
        best_score  == scores[best_format]
    IN  IF best_score >= MIN_DETECTION_SCORE
        THEN [format |-> best_format, confidence |-> Min(100, best_score * 5),
              profile |-> best_format]
        ELSE IF best_score > 0
        THEN [format |-> best_format, confidence |-> Min(30, best_score * 5),
              profile |-> best_format]
        ELSE [format |-> "generic", confidence |-> 0, profile |-> "None"]

detect_format(content, df, fname) ==
    DetectionResult(FormatScores(SearchText(content, df, fname)))

-----------------------------------------------------------------------------
(* Values of the request state before a step has produced them.          *)

NoFrame == [columns |-> <<>>, rows |-> <<>>]

NoFormat == [format |-> "generic", confidence |-> 0, profile |-> "None"]

NoScores == [p \in DOMAIN FORMAT_PROFILES |-> 0]

NoReport == [errors |-> <<>>, warnings |-> <<>>, data_quality_score |-> 100]

NoResponse == [status |-> 0, error |-> ""]

\* every sequence of at most n elements of S
SeqUpTo(S, n) == UNION {[1..k -> S] : k \in 0..n}

-----------------------------------------------------------------------------
(* config.py                                                               *)

DATA_END_MARKERS ==
    <<"summary groups", "future residents/applicants", "totals", "grand total",
      "property totals", "portfolio summary">>

FILTER_PATTERNS == <<",,,,,", "total", "summary">>

-----------------------------------------------------------------------------
(* data_loader.py                                                          *)

\* ' '.join(str(val).lower() for val in row if pd.notna(val))
RowStr(row) ==
    LET cells == NotNaCells(row)
    IN  Join([i \in 1..Len(cells) |-> Lower(cells[i])], " ")

\* the least index in 0..limit-1 that satisfies Test, or -1
FirstIndex(limit, Test(_)) ==
    IF \E i \in 0..(limit - 1) : Test(i)
    THEN CHOOSE i \in 0..(limit - 1) : Test(i) /\ \A j \in 0..(i - 1) : ~Test(j)
    ELSE -1

yardi_header_indicators ==
    <<<<"unit", "type", "resident">>, <<"unit", "type", "sq", "resident">>,
      <<"unit", "resident", "name">>>>

header_keywords == <<"unit", "resident", "tenant", "apartment", "rent">>

\* Strategy 1 of find_header_and_data_start_excel
YardiHeaderRow(df) ==
    FirstIndex(Min(20, Len(df)),
        LAMBDA idx : \E k \in 1..Len(yardi_header_indicators) :
            \A m \in 1..Len(yardi_header_indicators[k]) :
                Contains(RowStr(df[idx + 1]), yardi_header_indicators[k][m]))

\* Strategy 2 of find_header_and_data_start_excel
GenericHeaderRow(df) ==
    FirstIndex(Min(20, Len(df)),
        LAMBDA idx : CountHits(Len(header_keywords),
            LAMBDA k : Contains(RowStr(df[idx + 1]), header_keywords[k])) >= 2)

\* the header row find_header_and_data_start_excel searches for, -1 when
\* neither strategy finds one
SearchedHeaderRow(df, info) ==
    LET yardi == IF info.format = "yardi" THEN YardiHeaderRow(df) ELSE -1
    IN  IF yardi # -1 THEN yardi ELSE GenericHeaderRow(df)

\* the header row the function goes on with: row 0 when none was found
ExcelHeaderRow(df, info) ==
    LET found == SearchedHeaderRow(df, info)
    IN  IF found = -1 THEN 0 ELSE found

\* f'column_{i}'
ColumnPlaceholder(i) == "column_" \o ColumnLabel(i)

\* .fillna('')
FillNa(row) == [i \in 1..Len(row) |-> IF isna(row[i]) THEN "" ELSE row[i]]

HasDigit(s) == \E i \in 1..Len(s) : CharAt(s, i) \in DigitChars

\* is_row2_data of the spreadsheet locator
ExcelRow2IsData(header2) ==
    LET cells   == SelectSeq(header2, LAMBDA v : Strip(v) # "")
        row2str == Join([i \in 1..Len(cells) |-> Lower(cells[i])], " ")
    IN  HasDigit(SubSeq(row2str, 1, Min(50, Len(row2str))))

\* one name of the combined two-row header of the spreadsheet locator
ExcelCombine(h1, h2, i) ==
    IF h1 # "" /\ h2 # "" /\ h1 # h2
    THEN IF Lower(h1) \in {"unit", "resident", "charge"} /\ Lower(h2) \notin {"", "nan"}
         THEN Strip(h1 \o " " \o h2)
         ELSE (IF Lower(h1) # "nan" THEN h1 ELSE h2)
    ELSE IF h1 # "" /\ Lower(h1) # "nan" THEN h1
    ELSE IF h2 # "" /\ Lower(h2) # "nan" THEN h2
    ELSE ColumnPlaceholder(i)

\* combined_header and data_start_idx of find_header_and_data_start_excel
ExcelHeader(df, header_row_idx, has_two_row_header) ==
    IF has_two_row_header /\ header_row_idx + 1 < Len(df)
    THEN LET header1 == FillNa(df[header_row_idx + 1])
             header2 == FillNa(df[header_row_idx + 2])
         IN  IF ExcelRow2IsData(header2)
             THEN [combined_header |-> [i \in 1..Len(header1) |-> Strip(header1[i])],
                   data_start_idx  |-> header_row_idx + 1]
             ELSE [combined_header |->
                       [i \in 1..Len(header1) |->
                           ExcelCombine(Strip(header1[i]), Strip(header2[i]), i - 1)],
                   data_start_idx  |-> header_row_idx + 2]
    ELSE LET header_row == df[header_row_idx + 1]
         IN  [combined_header |->
                  [i \in 1..Len(header_row) |->
                      IF isna(header_row[i]) THEN ColumnPlaceholder(i - 1)
                      ELSE Strip(header_row[i])],
              data_start_idx  |-> header_row_idx + 1]

\* whether a row's text holds one of the profile's section markers
HasSectionMarker(text, profile) ==
    \E m \in 1..Len(FORMAT_PROFILES[profile].section_markers) :
        Contains(clean_text_for_comparison(text),
                 CleanedProfiles[profile]["section_markers"][m])

\* a locator that does not look for section markers; not the program's
\* rule, which ExcelDataStart states
DataStartAfterHeader(df, data_start_idx, profile) == data_start_idx

\* actual_data_start of find_header_and_data_start_excel: the row after the
\* first marker row among the ten rows from data_start_idx
ExcelDataStart(df, data_start_idx, profile) ==
    LET hit == FirstIndex(Min(data_start_idx + 10, Len(df)),
                   LAMBDA idx : idx >= data_start_idx
                                /\ HasSectionMarker(RowStr(df[idx + 1]), profile))
    IN  IF hit = -1 THEN data_start_idx ELSE hit + 1

HasEndMarker(text) ==
    \E m \in 1..Len(DATA_END_MARKERS) : Contains(text, DATA_END_MARKERS[m])

\* a data range that runs to the last row of the sheet; not the program's
\* rule, which ExcelDataEnd states
DataEndAtLastRow(df, actual_data_start) == Len(df)

\* data_end_idx of find_header_and_data_start_excel
ExcelDataEnd(df, actual_data_start) ==
    LET hit == FirstIndex(Len(df),
                   LAMBDA idx : idx >= actual_data_start /\ HasEndMarker(RowStr(df[idx + 1])))
    IN  IF hit = -1 THEN Len(df) ELSE hit

\* .replace('  ', ' '): every second space of a run of spaces is dropped
DoubleSpaceAt(s, i) ==
    IF CharAt(s, i) # " " THEN CharAt(s, i)
    ELSE LET run == CHOOSE k \in 1..i :
                        /\ \A j \in (i - k + 1)..i : CharAt(s, j) = " "
                        /\ (k = i \/ CharAt(s, i - k) # " ")
         IN  IF run % 2 = 1 THEN " " ELSE ""

\* col.lower().strip().replace('  ', ' ').replace(' ', '_')
CleanColumnName(col) ==
    LET t == Strip(Lower(col))
    IN  ReplaceChar(MapChars(DoubleSpaceAt, t, 1, Len(t)), " ", "_")

InSeq(x, s) == \E i \in 1..Len(s) : s[i] = x

\* df.rename(columns={old: new})
RenameColumn(columns, old, new) ==
    [i \in 1..Len(columns) |-> IF columns[i] = old THEN new ELSE columns[i]]

\* the profile's column_mappings applied to the names that are present
ApplyProfileMappings(columns, profile) ==
    LET mapping == FORMAT_PROFILES[profile].column_mappings
        standard(col) == mapping[CHOOSE k \in 1..Len(mapping) : mapping[k][1] = col][2]
    IN  [i \in 1..Len(columns) |->
            IF \E k \in 1..Len(mapping) : mapping[k][1] = columns[i]
            THEN standard(columns[i]) ELSE columns[i]]

standard_mappings ==
    << <<"unit_sq_ft", "sq_ft">>, <<"unit_sqft", "sq_ft">>,
       <<"square_feet", "sq_ft">>, <<"square_footage", "sq_ft">>,
       <<"apartment", "unit">>, <<"apt", "unit">>, <<"unit_number", "unit">>,
       <<"tenant", "resident_name">>, <<"tenant_name", "resident_name">>,
       <<"name", "resident_name">>, <<"monthly_rent", "market_rent">>,
       <<"rent_amount", "market_rent">>, <<"move_in_date", "move_in">>,
       <<"movein_date", "move_in">>, <<"lease_end", "lease_expiration">>,
       <<"lease_end_date", "lease_expiration">>,
       <<"expiration", "lease_expiration">> >>

\* the loop over standard_mappings, from entry k on
RECURSIVE ApplyStandardMappings(_, _)
ApplyStandardMappings(columns, k) ==
    IF k > Len(standard_mappings) THEN columns
    ELSE LET old == standard_mappings[k][1]
             new == standard_mappings[k][2]
         IN  ApplyStandardMappings(
                 IF InSeq(old, columns) /\ ~InSeq(new, columns)
                 THEN RenameColumn(columns, old, new) ELSE columns,
                 k + 1)

\* a fallback that renames the first column whose name contains 'unit' even
\* when a column is already named 'unit'; not the program's rule, which
\* UnitFallback states
EagerUnitFallback(columns) ==
    LET first == FirstIndex(Len(columns),
                     LAMBDA i : Contains(Lower(columns[i + 1]), "unit"))
    IN  IF first = -1 THEN columns
        ELSE RenameColumn(columns, columns[first + 1], "unit")

\* the first column whose lowercased name contains 'unit' becomes 'unit'
\* when no column is named 'unit'
UnitFallback(columns) ==
    IF InSeq("unit", columns) THEN columns
    ELSE LET first == FirstIndex(Len(columns),
                          LAMBDA i : Contains(Lower(columns[i + 1]), "unit"))
         IN  IF first = -1 THEN columns
             ELSE RenameColumn(columns, columns[first + 1], "unit")

\* the column names normalize_column_names leaves; profile "None" is no profile
NormalizedColumns(columns, profile) ==
    LET cleaned == [i \in 1..Len(columns) |-> CleanColumnName(columns[i])]
        mapped  == IF profile = "None" THEN cleaned
                   ELSE ApplyProfileMappings(cleaned, profile)
    IN  UnitFallback(ApplyStandardMappings(mapped, 1))

normalize_column_names(df, profile) ==
    [columns |-> NormalizedColumns(df.columns, profile), rows |-> df.rows]

\* the header applied to the extracted rows, padded with placeholders when
\* it is shorter than the rows are wide
ApplyHeader(combined_header, width) ==
    [i \in 1..width |->
        IF i <= Len(combined_header) THEN combined_header[i]
        ELSE ColumnPlaceholder(i - 1)]

\* lines 174-186: the rows from actual_data_start up to the data end, under
\* the combined header, with normalized column names
ExcelExtract(df, profile, combined_header, actual_data_start) ==
    normalize_column_names(
        [columns |-> ApplyHeader(combined_header, GridWidth(df)),
         rows    |-> SubSeq(df, actual_data_start + 1, ExcelDataEnd(df, actual_data_start))],
        profile)

\* lines 138-186, from the combined header on
ExcelFromHeader(df, profile, hdr) ==
    ExcelExtract(df, profile, hdr.combined_header,
                 ExcelDataStart(df, hdr.data_start_idx, profile))

\* lines 39-191, with the format the function works with: reading
\* has_two_row_header off a profile that is None raises AttributeError
ExcelLocate(df, info) ==
    IF info.profile = "None"
    THEN [exc |-> "AttributeError", df |-> NoFrame]
    ELSE IF Len(df) = 0
    THEN [exc |-> "IndexError", df |-> NoFrame]
    ELSE [exc |-> "none",
          df  |-> ExcelFromHeader(df, info.profile,
                      ExcelHeader(df, ExcelHeaderRow(df, info),
                                  FORMAT_PROFILES[info.profile].has_two_row_header))]

\* lines 27-30: a generic format is detected anew from the sheet alone
LocatorFormat(df, detected) ==
    IF detected.format = "generic" THEN detect_format("", df, "") ELSE detected

\* find_header_and_data_start_excel: the exception it raises ("none" when it
\* returns) and the table it returns
find_header_and_data_start_excel(df, detected) ==
    ExcelLocate(df, LocatorFormat(df, detected))
-----------------------------------------------------------------------------
(* processing.py                                                           *)

\* a number n, held as the integer count of hundredths
Num(n) == <<n>>

\* a missing number (NaN) or date (NaT)
NumNaN == <<>>

\* str(v) of a cell
Str(v) == IF isna(v) THEN "nan" ELSE v

DropAt(s, i, chars) == IF CharAt(s, i) \in chars THEN "" ELSE CharAt(s, i)

\* a cleaning step that leaves the currency sign and the commas in; not the
\* program's rule, which StripCurrency states
KeepCurrencySigns(s) == s

\* .str.replace(r'[$,]', '', regex=True)
StripCurrency(s) ==
    LET F(t, i) == DropAt(t, i, {"$", ","})
    IN  MapChars(F, s, 1, Len(s))

\* .str.replace(r'\((.*?)\)', r'-\1', regex=True)
RECURSIVE ParenToMinus(_)
ParenToMinus(s) ==
    LET n == Len(s)
        opens == {i \in 1..n : CharAt(s, i) = "(" /\ \E j \in (i + 1)..n : CharAt(s, j) = ")"}
    IN  IF opens = {} THEN s
        ELSE LET i == CHOOSE i \in opens : \A k \in opens : i <= k
                 j == CHOOSE j \in (i + 1)..n :
                          CharAt(s, j) = ")" /\ \A k \in (i + 1)..(j - 1) : CharAt(s, k) # ")"
             IN  SubSeq(s, 1, i - 1) \o "-" \o SubSeq(s, i + 1, j - 1)
                     \o ParenToMinus(SubSeq(s, j + 1, n))

DigitValue(c) == (CHOOSE i \in 1..10 : CharAt(Digits, i) = c) - 1

IsDigits(s) == \A i \in 1..Len(s) : CharAt(s, i) \in DigitChars

\* the value of a string of digits
RECURSIVE DigitsValue(_)
DigitsValue(s) ==
    IF s = "" THEN 0
    ELSE 10 * DigitsValue(SubSeq(s, 1, Len(s) - 1)) + DigitValue(CharAt(s, Len(s)))

\* pd.to_numeric(errors='coerce') of one string: an optional sign, digits and
\* an optional decimal part, read to the hundredth; anything else is NaN
ParseNumber(s) ==
    LET signed == s # "" /\ CharAt(s, 1) \in {"-", "+"}
        body   == IF signed THEN SubSeq(s, 2, Len(s)) ELSE s
        parts  == Split(body, ".")
        whole  == parts[1]
        frac   == IF Len(parts) = 2 THEN parts[2] ELSE ""
        frac2  == SubSeq(frac \o "00", 1, 2)
        value  == 100 * DigitsValue(whole) + DigitsValue(frac2)
    IN  IF body = "" \/ Len(parts) > 2 \/ ~IsDigits(whole) \/ ~IsDigits(frac)
           \/ (whole = "" /\ frac = "")
        THEN NumNaN
        ELSE Num(IF signed /\ CharAt(s, 1) = "-" THEN 0 - value ELSE value)

\* clean_and_convert_to_numeric of one cell
clean_and_convert_to_numeric(v) ==
    LET cleaned == Strip(ParenToMinus(StripCurrency(Str(v))))
    IN  IF cleaned \in {"", "nan", "None", "null"} THEN NumNaN
        ELSE ParseNumber(cleaned)

\* pd.to_datetime(errors='coerce') of one cell, for dates written
\* YYYY-MM-DD: the date as the number YYYYMMDD, anything else NaT
to_datetime(v) ==
    LET s == Str(v)
    IN  IF /\ Len(s) = 10
           /\ CharAt(s, 5) = "-" /\ CharAt(s, 8) = "-"
           /\ IsDigits(SubSeq(s, 1, 4)) /\ IsDigits(SubSeq(s, 6, 7))
           /\ IsDigits(SubSeq(s, 9, 10))
        THEN Num(DigitsValue(SubSeq(s, 1, 4) \o SubSeq(s, 6, 7) \o SubSeq(s, 9, 10)))
        ELSE NumNaN

invalid_units == {"nan", "NaN", "NAN", "null", "NULL", "None", "NONE", "", " "}

date_cols == <<"move_in", "move_out", "lease_expiration">>

numeric_cols == <<"market_rent", "sq_ft", "resident_deposit", "other_deposit", "balance">>

primary_cols ==
    <<"unit", "unit_type", "sq_ft", "resident_code", "resident_name",
      "market_rent", "resident_deposit", "other_deposit",
      "move_in", "lease_expiration", "move_out", "balance">>

\* the position of the first column called name
ColIndex(columns, name) ==
    CHOOSE i \in 1..Len(columns) : columns[i] = name /\ \A j \in 1..(i - 1) : columns[j] # name

\* the columns of the table after the search for a unit column
ResolveUnitColumn(columns) ==
    IF InSeq("unit", columns) THEN columns
    ELSE LET possible == SelectSeq(columns, LAMBDA col : Contains(Lower(col), "unit"))
         IN  IF possible # <<>> THEN RenameColumn(columns, possible[1], "unit")
             ELSE columns

\* whether a cleaned unit value survives the sentinel and pattern filters
KeepUnit(unit) ==
    /\ unit \notin invalid_units
    /\ ~Contains(unit, FILTER_PATTERNS[1])
    /\ ~Contains(Lower(unit), FILTER_PATTERNS[2])
    /\ ~Contains(Lower(unit), FILTER_PATTERNS[3])

\* a cell of the long table after the conversions that precede aggregation
ConvertedCell(col, v) ==
    IF col = "unit" THEN Strip(Str(v))
    ELSE IF InSeq(col, date_cols) THEN to_datetime(v)
    ELSE IF InSeq(col, numeric_cols) THEN clean_and_convert_to_numeric(v)
    ELSE v

\* the missing value of a column: NaN for text, NaN/NaT for numbers and dates
MissingOf(col) ==
    IF InSeq(col, date_cols) \/ InSeq(col, numeric_cols) THEN NumNaN ELSE NaN

\* the printable characters in code-point order (the grave accent, which a
\* string literal cannot hold, left out)
Ascii == " !\"#$%&'()*+,-./0123456789:;<=>?@ABCDEFGHIJKLMNOPQRSTUVWXYZ[\\]^_abcdefghijklmnopqrstuvwxyz{|}~"

CharCode(c) == CHOOSE i \in 1..Len(Ascii) : CharAt(Ascii, i) = c

\* a < b for Python strings
StrLess(a, b) ==
    LET n == Min(Len(a), Len(b))
        diff == {i \in 1..n : CharAt(a, i) # CharAt(b, i)}
    IN  IF diff = {} THEN Len(a) < Len(b)
        ELSE LET i == CHOOSE i \in diff : \A j \in diff : i <= j
             IN  CharCode(CharAt(a, i)) < CharCode(CharAt(b, i))

\* a set of strings as the sorted sequence
RECURSIVE SortStrings(_)
SortStrings(S) ==
    IF S = {} THEN <<>>
    ELSE LET least == CHOOSE x \in S : \A y \in S \ {x} : StrLess(x, y)
         IN  <<least>> \o SortStrings(S \ {least})

\* the first value of a sequence that is not `missing`, `missing` when none:
\* groupby(...).agg('first')
FirstNotNull(values, missing) ==
    LET present == SelectSeq(values, LAMBDA v : v # missing)
    IN  IF present = <<>> THEN missing ELSE present[1]

\* df['charge_code'].astype(str).str.strip().str.lower()
CleanChargeCode(v) == Lower(Strip(Str(v)))

\* a charge filter that keeps positive amounts only; not the program's
\* rule, which ValidCharge states
PositiveCharge(code, amount) ==
    /\ code \notin {"", "nan", "null"}
    /\ amount # NumNaN
    /\ amount[1] > 0

\* whether a row with this cleaned charge code and amount is a valid charge
ValidCharge(code, amount) ==
    /\ code \notin {"", "nan", "null"}
    /\ amount # NumNaN
    /\ amount # Num(0)
    /\ ~Contains(code, "total")
    /\ ~Contains(code, "summary")

\* str(col).lower().strip().replace(' ', '_')
CleanFinalName(col) == ReplaceChar(Strip(Lower(col)), " ", "_")

\* an occupancy rule that takes only a missing field for a vacancy; not the
\* program's rule, which Occupancy states
MissingOnlyOccupancy(x) == IF isna(x) THEN "Vacant" ELSE "Occupied"

\* occupancy_status of one resident field
Occupancy(x) ==
    IF isna(x) \/ Strip(Str(x)) = "" \/ Upper(Str(x)) \in {"VACANT", "NAN", "NULL", "NONE"}
    THEN "Vacant" ELSE "Occupied"

\* the column actual_rent is copied from, "" when there is none
ActualRentSource(columns) ==
    IF InSeq("rent", columns) THEN "rent"
    ELSE LET rent_cols == SelectSeq(columns,
                              LAMBDA col : Contains(Lower(col), "rent") /\ col # "petrent")
         IN  IF rent_cols # <<>> THEN rent_cols[1] ELSE ""

\* the long table after the unit column is found, the unit values are
\* cleaned, the rows with sentinel, separator and total units are dropped
\* and the date and numeric columns are converted
UnitRows(df) ==
    LET cols == ResolveUnitColumn(df.columns)
        conv == [r \in 1..Len(df.rows) |->
                    [i \in 1..Len(cols) |-> ConvertedCell(cols[i], df.rows[r][i])]]
    IN  [columns |-> cols,
         rows |-> SelectSeq(conv, LAMBDA row : KeepUnit(row[ColIndex(cols, "unit")]))]

\* the units of a table in the order groupby gives them: sorted
SortedUnits(t) ==
    SortStrings({t.rows[r][ColIndex(t.columns, "unit")] : r \in 1..Len(t.rows)})

\* unit attributes taken from the first non-null value of the whole table,
\* whatever the unit of the row; not the program's rule, which UnitInfo
\* states
UngroupedUnitInfo(t) ==
    LET attrs == SelectSeq(primary_cols, LAMBDA c : c # "unit" /\ InSeq(c, t.columns))
        units == SortedUnits(t)
        column(c) == [r \in 1..Len(t.rows) |-> t.rows[r][ColIndex(t.columns, c)]]
    IN  [columns |-> <<"unit">> \o attrs,
         rows |-> [k \in 1..Len(units) |->
                      <<units[k]>> \o [a \in 1..Len(attrs) |->
                          FirstNotNull(column(attrs[a]), MissingOf(attrs[a]))]]]

\* unit_info: df.groupby('unit', as_index=False).agg('first' for every
\* available primary column)
UnitInfo(t) ==
    LET attrs == SelectSeq(primary_cols, LAMBDA c : c # "unit" /\ InSeq(c, t.columns))
        units == SortedUnits(t)
        column(u, c) ==
            LET rs == SelectSeq(t.rows, LAMBDA row : row[ColIndex(t.columns, "unit")] = u)
            IN  [r \in 1..Len(rs) |-> rs[r][ColIndex(t.columns, c)]]
    IN  [columns |-> <<"unit">> \o attrs,
         rows |-> [k \in 1..Len(units) |->
                      <<units[k]>> \o [a \in 1..Len(attrs) |->
                          FirstNotNull(column(units[k], attrs[a]), MissingOf(attrs[a]))]]]

\* charge_df: the (unit, charge code, amount) of every row with a valid
\* charge, no rows when the table has no charge_code or amount column
ChargeRows(t) ==
    IF InSeq("charge_code", t.columns) /\ InSeq("amount", t.columns)
    THEN LET all == [r \in 1..Len(t.rows) |->
                        [unit   |-> t.rows[r][ColIndex(t.columns, "unit")],
                         code   |-> CleanChargeCode(t.rows[r][ColIndex(t.columns, "charge_code")]),
                         amount |-> clean_and_convert_to_numeric(
                                        t.rows[r][ColIndex(t.columns, "amount")])]]
         IN  SelectSeq(all, LAMBDA c : ValidCharge(c.code, c.amount))
    ELSE <<>>

\* the merge with a pivot that keeps the last amount of each (unit, code)
\* instead of the sum; not the program's rule, which MergeCharges states
LastValueCharges(unit_info, charge_df) ==
    LET codes == SortStrings({charge_df[r].code : r \in 1..Len(charge_df)})
        cell(u, c) ==
            LET rs == SelectSeq(charge_df, LAMBDA x : x.unit = u /\ x.code = c)
            IN  IF rs = <<>> THEN Num(0) ELSE rs[Len(rs)].amount
        columns == unit_info.columns \o codes
    IN  [columns |-> [i \in 1..Len(columns) |-> CleanFinalName(columns[i])],
         rows |-> [k \in 1..Len(unit_info.rows) |->
                      unit_info.rows[k] \o
                          [c \in 1..Len(codes) |-> cell(unit_info.rows[k][1], codes[c])]]]

\* the merge as an inner join: units without a charge are left out; not the
\* program's rule, which MergeCharges states
InnerJoinCharges(unit_info, charge_df) ==
    LET codes == SortStrings({charge_df[r].code : r \in 1..Len(charge_df)})
        charged == SelectSeq(unit_info.rows,
                             LAMBDA row : \E r \in 1..Len(charge_df) : charge_df[r].unit = row[1])
        cell(u, c) ==
            LET rs == SelectSeq(charge_df, LAMBDA x : x.unit = u /\ x.code = c)
            IN  Num(SumSeq([r \in 1..Len(rs) |-> rs[r].amount[1]]))
        columns == unit_info.columns \o codes
    IN  [columns |-> [i \in 1..Len(columns) |-> CleanFinalName(columns[i])],
         rows |-> [k \in 1..Len(charged) |->
                      charged[k] \o [c \in 1..Len(codes) |-> cell(charged[k][1], codes[c])]]]

\* pd.merge(unit_info, pivot_df, on='unit', how='left') with the pivot of
\* the charges: one column per charge code, the sum of the amounts of each
\* (unit, code), 0 where a unit has none; then the final column names
MergeCharges(unit_info, charge_df) ==
    LET codes == SortStrings({charge_df[r].code : r \in 1..Len(charge_df)})
        cell(u, c) ==
            LET rs == SelectSeq(charge_df, LAMBDA x : x.unit = u /\ x.code = c)
            IN  Num(SumSeq([r \in 1..Len(rs) |-> rs[r].amount[1]]))
        columns == unit_info.columns \o codes
    IN  [columns |-> [i \in 1..Len(columns) |-> CleanFinalName(columns[i])],
         rows |-> [k \in 1..Len(unit_info.rows) |->
                      unit_info.rows[k] \o
                          [c \in 1..Len(codes) |-> cell(unit_info.rows[k][1], codes[c])]]]

\* final_df['occupancy_status']
AddOccupancy(t) ==
    LET resident_col == IF InSeq("resident_name", t.columns) THEN "resident_name"
                        ELSE IF InSeq("resident_code", t.columns) THEN "resident_code"
                        ELSE ""
    IN  [columns |-> Append(t.columns, "occupancy_status"),
         rows |-> [k \in 1..Len(t.rows) |->
                      Append(t.rows[k],
                             IF resident_col = "" THEN "Unknown"
                             ELSE Occupancy(t.rows[k][ColIndex(t.columns, resident_col)]))]]

\* final_df['actual_rent']
AddActualRent(t) ==
    LET rent_src == ActualRentSource(t.columns)
    IN  IF rent_src = "" THEN t
        ELSE [columns |-> Append(t.columns, "actual_rent"),
              rows |-> [k \in 1..Len(t.rows) |->
                           Append(t.rows[k], t.rows[k][ColIndex(t.columns, rent_src)])]]

\* whether optimize_memory_usage raises ZeroDivisionError: it divides each
\* text column's nunique() by the number of rows, and the unit column is
\* always a text column
optimize_memory_usage_raises(t) == Len(t.rows) = 0

\* the final validation: rows with a sentinel unit are dropped
FinalFilter(t) ==
    [columns |-> t.columns,
     rows |-> SelectSeq(t.rows, LAMBDA row : row[1] \notin invalid_units)]

\* final_df before optimize_memory_usage
FinalTable(t) == AddActualRent(AddOccupancy(MergeCharges(UnitInfo(t), ChargeRows(t))))

\* process_rent_roll_vectorized: the exception it raises ("none" when it
\* returns) and the wide table it returns
process_rent_roll_vectorized(df) ==
    IF df.rows = <<>> \/ df.columns = <<>>
    THEN [exc |-> "none", df |-> NoFrame]
    ELSE IF ~InSeq("unit", ResolveUnitColumn(df.columns))
    THEN [exc |-> "ValueError", df |-> NoFrame]
    ELSE LET final_df == FinalTable(UnitRows(df))
         IN  IF optimize_memory_usage_raises(final_df)
             THEN [exc |-> "ZeroDivisionError", df |-> NoFrame]
             ELSE [exc |-> "none", df |-> FinalFilter(final_df)]

-----------------------------------------------------------------------------
(* data_loader.py, CSV branch                                              *)

\* file_buffer.readlines(), each line without its line ending
Lines(content) ==
    IF content = "" THEN <<>>
    ELSE LET pieces == Split(content, "\n")
         IN  IF pieces[Len(pieces)] = "" THEN SubSeq(pieces, 1, Len(pieces) - 1)
             ELSE pieces

\* line.decode(...).strip().lower()
LineText(line) == Lower(Strip(line))

\* the header line of find_header_and_data_start_csv, -1 when there is none
CsvHeaderLine(lines, info) ==
    LET specific ==
            IF info.format # "generic"
            THEN FirstIndex(Min(20, Len(lines)),
                     LAMBDA i : CountHits(Len(FORMAT_PROFILES[info.profile].header_markers),
                         LAMBDA m : Contains(LineText(lines[i + 1]),
                                        FORMAT_PROFILES[info.profile].header_markers[m])) >= 2)
            ELSE -1
    IN  IF specific # -1 THEN specific
        ELSE FirstIndex(Min(20, Len(lines)),
                 LAMBDA i : /\ Contains(LineText(lines[i + 1]), "unit")
                            /\ \/ Contains(LineText(lines[i + 1]), "resident")
                               \/ Contains(LineText(lines[i + 1]), "tenant"))

\* is_row2_data of the CSV locator
CsvRow2IsData(header2) == HasDigit(SubSeq(header2[1], 1, Min(10, Len(header2[1]))))

\* one name of the combined two-row header of the CSV locator
CsvCombine(h1, h2) ==
    IF h1 # "" /\ h2 # "" THEN Strip(h1 \o " " \o h2)
    ELSE IF h1 # "" THEN h1
    ELSE h2

\* combined_header and data_start_idx of find_header_and_data_start_csv,
\* before the search for section markers
CsvHeader(lines, header_start_idx, has_two_row_header) ==
    LET header1 == Split(Strip(lines[header_start_idx + 1]), ",")
    IN  IF has_two_row_header /\ header_start_idx + 1 < Len(lines)
        THEN LET header2 == Split(Strip(lines[header_start_idx + 2]), ",")
                 field(h, i) == IF i <= Len(h) THEN Strip(h[i]) ELSE ""
             IN  IF CsvRow2IsData(header2)
                 THEN [combined_header |-> header1, data_start_idx |-> header_start_idx + 1]
                 ELSE [combined_header |->
                           [i \in 1..Max(Len(header1), Len(header2)) |->
                               CsvCombine(field(header1, i), field(header2, i))],
                       data_start_idx |-> header_start_idx + 2]
        ELSE [combined_header |-> header1, data_start_idx |-> header_start_idx + 1]

\* data_start_idx after the search for section markers: the loop runs over
\* all ten lines and every marker line moves the start
CsvDataStart(lines, data_start_idx, profile) ==
    LET window == {i \in data_start_idx..(Min(data_start_idx + 10, Len(lines)) - 1) :
                      HasSectionMarker(LineText(lines[i + 1]), profile)}
    IN  IF window = {} THEN data_start_idx
        ELSE (CHOOSE i \in window : \A j \in window : j <= i) + 1

\* footer_start_idx of load_and_prepare_dataframe
CsvFooterStart(lines, data_start_idx) ==
    LET hit == FirstIndex(Len(lines),
                   LAMBDA i : i >= data_start_idx /\ HasEndMarker(LineText(lines[i + 1])))
    IN  IF hit = -1 THEN Len(lines) ELSE hit

HasDuplicates(s) == \E i, j \in 1..Len(s) : i < j /\ s[i] = s[j]

\* pd.read_csv(header=None, skiprows=, nrows=, names=) of comma-separated
\* lines without quotes: blank lines are skipped, an empty field is NaN
read_csv(lines, skiprows, nrows, names) ==
    LET rest   == SubSeq(lines, skiprows + 1, Len(lines))
        solid  == SelectSeq(rest, LAMBDA l : l # "")
        chosen == SubSeq(solid, 1, Min(nrows, Len(solid)))
        cell(l, i) ==
            LET fields == Split(l, ",")
            IN  IF i <= Len(fields) /\ fields[i] # "" THEN fields[i] ELSE NaN
    IN  [columns |-> names,
         rows |-> [r \in 1..Len(chosen) |-> [i \in 1..Len(names) |-> cell(chosen[r], i)]]]

\* lines 412-435 of load_and_prepare_dataframe: the footer search, read_csv
\* (which refuses duplicate names) and normalize_column_names
CsvExtract(lines, profile, combined_header, data_start_idx) ==
    IF HasDuplicates(combined_header)
    THEN [exc |-> "ValueError", df |-> NoFrame]
    ELSE [exc |-> "none",
          df  |-> normalize_column_names(
                      read_csv(lines, data_start_idx,
                               CsvFooterStart(lines, data_start_idx) - data_start_idx,
                               combined_header),
                      profile)]

\* find_header_and_data_start_csv from the combined header on
CsvFromHeader(lines, profile, hdr) ==
    CsvExtract(lines, profile, hdr.combined_header,
               CsvDataStart(lines, hdr.data_start_idx, profile))

\* find_header_and_data_start_csv from the header line on (-1: none found):
\* ValueError without a header line, AttributeError when has_two_row_header
\* is read off a profile that is None
CsvLocate(lines, detected, header_start_idx) ==
    IF header_start_idx = -1
    THEN [exc |-> "ValueError", df |-> NoFrame]
    ELSE IF detected.profile = "None"
    THEN [exc |-> "AttributeError", df |-> NoFrame]
    ELSE CsvFromHeader(lines, detected.profile,
             CsvHeader(lines, header_start_idx,
                       FORMAT_PROFILES[detected.profile].has_two_row_header))

\* load_and_prepare_dataframe, CSV branch after detection: the exception
\* raised ("none" when it returns) and the table returned
LoadCsvLines(lines, detected) == CsvLocate(lines, detected, CsvHeaderLine(lines, detected))

load_csv(content, detected) == LoadCsvLines(Lines(content), detected)

-----------------------------------------------------------------------------
(* validator.py                                                            *)

\* the names validator.py binds at module level: its imports and its
\* definitions
validator_globals ==
    {"pd", "np", "Dict", "List", "Any", "logging", "logger",
     "validate_rent_roll", "generate_validation_summary"}

\* validate_rent_roll: its first statement reads VALIDATION_THRESHOLDS, a
\* name the module neither imports nor defines
validate_rent_roll(df) ==
    IF "VALIDATION_THRESHOLDS" \notin validator_globals
    THEN [exc |-> "NameError", report |-> NoReport]
    ELSE [exc |-> "none", report |-> NoReport]

-----------------------------------------------------------------------------
(* main.py: process_rent_roll_http for a POST request that carries a file  *)
(* and asks for the default JSON export.                                   *)

\* file_extension of load_and_prepare_dataframe
FileKind(name) ==
    LET parts == Split(Lower(name), ".")
    IN  IF Len(parts) > 1 /\ parts[Len(parts)] \in {"xlsx", "xls"} THEN "excel" ELSE "csv"

\* DataFrame.empty
Empty(df) == df.rows = <<>> \/ df.columns = <<>>

\* the (status, error) pair process_rent_roll_http answers with
HttpResponse(raised, df) ==
    IF raised = "ValueError" THEN [status |-> 400, error |-> "File format error"]
    ELSE IF raised # "none" THEN [status |-> 500, error |-> "Internal Server Error"]
    ELSE IF Empty(df)
    THEN [status |-> 400, error |-> "No valid data found after processing"]
    ELSE [status |-> 200, error |-> ""]

\* load_and_prepare_dataframe up to detect_format: on the decoded sheet for
\* a spreadsheet, on the first 10000 characters of the file for a CSV
Detect ==
    /\ pc = "detect"
    /\ format_scores' =
           IF kind = "excel" THEN FormatScores(SearchText("", grid, filename))
           ELSE FormatScores(SearchText(ContentPreview(file_content), <<>>, filename))
    /\ format_info' = DetectionResult(format_scores')
    /\ pc' = "locate"
    /\ UNCHANGED <<kind, filename, file_content, grid, raw_df, processed_df,
                   validation, exc, response>>

\* load_and_prepare_dataframe, spreadsheet branch: find_header_and_data_start_excel
LocateExcel ==
    /\ pc = "locate"
    /\ kind = "excel"
    /\ LET r == find_header_and_data_start_excel(grid, format_info)
       IN  /\ raw_df' = r.df
           /\ exc' = r.exc
           /\ pc' = IF r.exc = "none" THEN "reshape" ELSE "respond"
    /\ UNCHANGED <<kind, filename, file_content, grid, format_info, format_scores,
                   processed_df, validation, response>>

\* load_and_prepare_dataframe, CSV branch: find_header_and_data_start_csv,
\* the footer search, read_csv and normalize_column_names
LocateCsv ==
    /\ pc = "locate"
    /\ kind = "csv"
    /\ LET r == load_csv(file_content, format_info)
       IN  /\ raw_df' = r.df
           /\ exc' = r.exc
           /\ pc' = IF r.exc = "none" THEN "reshape" ELSE "respond"
    /\ UNCHANGED <<kind, filename, file_content, grid, format_info, format_scores,
                   processed_df, validation, response>>

\* process_rent_roll_vectorized and the emptiness test of main.py
Reshape ==
    /\ pc = "reshape"
    /\ LET r == process_rent_roll_vectorized(raw_df)
       IN  /\ processed_df' = r.df
           /\ exc' = r.exc
           /\ pc' = IF r.exc = "none" /\ ~Empty(r.df) THEN "validate" ELSE "respond"
    /\ UNCHANGED <<kind, filename, file_content, grid, format_info, format_scores,
                   raw_df, validation, response>>

\* validate_rent_roll
Validate ==
    /\ pc = "validate"
    /\ LET r == validate_rent_roll(processed_df)
       IN  /\ validation' = r.report
           /\ exc' = r.exc
    /\ pc' = "respond"
    /\ UNCHANGED <<kind, filename, file_content, grid, format_info, format_scores,
                   raw_df, processed_df, response>>

\* the return statements and the except clauses of process_rent_roll_http
Respond ==
    /\ pc = "respond"
    /\ response' = HttpResponse(exc, processed_df)
    /\ pc' = "done"
    /\ UNCHANGED <<kind, filename, file_content, grid, format_info, format_scores,
                   raw_df, processed_df, validation, exc>>

-----------------------------------------------------------------------------
(* Uploaded sheets: the rows a rent roll export is made of.                *)

HeaderRow   == <<"Unit", "Unit Type", "Resident", "Market Rent">>
NoUnitRow   == <<"Resident", "Rent", "Type", "Status">>
PlainRow    == <<"foo", "bar", NaN, NaN>>
EmptyRow    == <<NaN, NaN, NaN, NaN>>
MarkerRow   == <<"Current/Notice/Vacant Residents", NaN, NaN, NaN>>
FooterRow   == <<"Summary Groups", NaN, NaN, NaN>>
Unit101     == <<"101", "1BR", "J. Doe", "1500">>
Unit102     == <<"102", "1BR", NaN, "0">>
TotalRow    == <<"Total", NaN, NaN, "1500">>

DataPool == <<Unit101, Unit102, TotalRow>>

\* the rows of DataPool at the positions S, in the pool's order
Picked(S) ==
    [k \in 1..Cardinality(S) |->
        DataPool[CHOOSE i \in S : Cardinality({j \in S : j < i}) = k - 1]]

\* at most n data rows: the pool, with rows left out
DataBlocks(n) ==
    {Picked(S) : S \in {T \in SUBSET (1..Len(DataPool)) : Cardinality(T) <= n}}

Optional(row) == {<<>>, <<row>>}

\* no header, or a first row with or without an empty second header row
HeaderBlocks ==
    {<<>>} \cup {<<first>> \o second :
                    first \in {HeaderRow, NoUnitRow, PlainRow},
                    second \in Optional(EmptyRow)}

Grids ==
    {header \o marker \o data \o footer :
        header \in HeaderBlocks,
        marker \in Optional(MarkerRow),
        data \in DataBlocks(MaxDataRows),
        footer \in Optional(FooterRow)} \ {<<>>}

\* the sheet saved as comma-separated text, one line per row
CsvText(g) ==
    Join([r \in 1..Len(g) |->
             Join([i \in 1..Len(g[r]) |-> IF isna(g[r][i]) THEN "" ELSE g[r][i]], ",")],
         "\n") \o "\n"

Filenames == {"upload.xlsx", "upload.csv"}

Init ==
    /\ pc = "detect"
    /\ filename \in Filenames
    /\ kind = FileKind(filename)
    /\ \E g \in Grids :
          /\ grid = IF kind = "excel" THEN g ELSE <<>>
          /\ file_content = IF kind = "excel" THEN "" ELSE CsvText(g)
    /\ format_info = NoFormat
    /\ format_scores = NoScores
    /\ raw_df = NoFrame
    /\ processed_df = NoFrame
    /\ validation = NoReport
    /\ exc = "none"
    /\ response = NoResponse

Next ==
    \/ Detect
    \/ LocateExcel
    \/ LocateCsv
    \/ Reshape
    \/ Validate
    \/ Respond

Spec == Init /\ [][Next]_vars

-----------------------------------------------------------------------------
(* Detection alone, on texts put together from marker phrases.             *)

\* the text made of all specific patterns of profile p, one per line
PatternText(p) == Join(FORMAT_PROFILES[p].specific_patterns, "\n")

DetectPhrases ==
    { "hello world", "agent roll report", "Lease", "Unit,Tenant,Rent",
      "Current Residents", "unit status report", "Rent Roll Report",
      "unit  unit type sq ft resident" }

DetectContents ==
    {Join(ps, "\n") : ps \in SeqUpTo(DetectPhrases, MaxPhrases)}
        \cup {PatternText(p) : p \in DOMAIN FORMAT_PROFILES}

DetectFilenames == {"", "export.csv", "mri.csv"}

InitDetect ==
    /\ pc = "detect"
    /\ kind = "csv"
    /\ filename \in DetectFilenames
    /\ file_content \in DetectContents
    /\ grid = <<>>
    /\ format_info = NoFormat
    /\ format_scores = NoScores
    /\ raw_df = NoFrame
    /\ processed_df = NoFrame
    /\ validation = NoReport
    /\ exc = "none"
    /\ response = NoResponse

NextDetect == Detect

SpecDetect == InitDetect /\ [][NextDetect]_vars

-----------------------------------------------------------------------------
(* Reshaping alone, on long tables: one row per unit followed by rows of   *)
(* its charges.                                                            *)

LongColumns == <<"unit", "resident_name", "charge_code", "amount">>

LongRows ==
    { <<"101", "J. Doe", "rent", "900">>,
      <<NaN, NaN, "pet", "50">>,
      <<"102", NaN, "rent", "$1,200.00">>,
      <<"102", "VACANT", "Pet Fee", "(25)">>,
      <<"103", "A. Roe", "subtotal", "75">>,
      <<"Total", NaN, NaN, "975">>,
      <<"101", NaN, "rent", "100">> }

LongTables ==
    {[columns |-> LongColumns, rows |-> rs] : rs \in SeqUpTo(LongRows, MaxRows)}

InitReshape ==
    /\ pc = "reshape"
    /\ kind = "csv"
    /\ filename = "upload.csv"
    /\ file_content = ""
    /\ grid = <<>>
    /\ format_info = NoFormat
    /\ format_scores = NoScores
    /\ raw_df \in LongTables
    /\ processed_df = NoFrame
    /\ validation = NoReport
    /\ exc = "none"
    /\ response = NoResponse

NextReshape ==
    \/ Reshape
    \/ Validate
    \/ Respond

SpecReshape == InitReshape /\ [][NextReshape]_vars

-----------------------------------------------------------------------------
(* Properties.                                                             *)

\* the value of column col in row r of a table
Field(df, r, col) == df.rows[r][ColIndex(df.columns, col)]

\* the steps after the table locator has run
Located == pc \in {"reshape", "validate", "respond", "done"}

\* the steps after process_rent_roll_vectorized has run
Reshaped == Located /\ pc # "reshape"

\* the step right after process_rent_roll_vectorized: exc is what it raised
AfterReshape ==
    \/ pc = "validate"
    \/ pc = "respond" /\ raw_df # NoFrame /\ Empty(processed_df)

\* the table locator raised: the request left it without a table
LocateRaised == Located /\ raw_df = NoFrame

\* the table locator found a header row or header line in the upload
HeaderFound ==
    IF kind = "excel"
    THEN SearchedHeaderRow(grid, LocatorFormat(grid, format_info)) # -1
    ELSE CsvHeaderLine(Lines(file_content), format_info) # -1

C1Grid == <<HeaderRow, EmptyRow, MarkerRow, Unit101, Unit102, FooterRow>>

\* C1: for the spreadsheet grid of a header row, an empty second header
\* row, a section-marker row, data rows 101 and 102 and a footer row,
\* detect -> locate -> normalize -> reshape yields exactly two unit records:
\* 101 Occupied with market_rent 1500 and 102 Vacant with market_rent 0.
C1_EndToEnd ==
    (kind = "excel" /\ grid = C1Grid /\ Reshaped) =>
        /\ Len(processed_df.rows) = 2
        /\ Field(processed_df, 1, "unit") = "101"
        /\ Field(processed_df, 1, "occupancy_status") = "Occupied"
        /\ Field(processed_df, 1, "market_rent") = Num(150000)
        /\ Field(processed_df, 2, "unit") = "102"
        /\ Field(processed_df, 2, "occupancy_status") = "Vacant"
        /\ Field(processed_df, 2, "market_rent") = Num(0)

C1_Witness == kind = "excel" /\ grid = C1Grid /\ pc = "validate"

\* whether the unit cell of a long-table row is blank
BlankUnit(row) == Strip(Str(row[ColIndex(LongColumns, "unit")])) \in invalid_units

\* the unit of the nearest row at or before r whose unit is not blank, ""
\* when there is none
BlockUnit(rows, r) ==
    LET opened == {k \in 1..r : ~BlankUnit(rows[k])}
    IN  IF opened = {} THEN ""
        ELSE Strip(rows[CHOOSE k \in opened : \A j \in opened : j <= k][ColIndex(LongColumns, "unit")])

\* the cleaned charge code and the amount of a long-table row
RowCode(row) == CleanChargeCode(row[ColIndex(LongColumns, "charge_code")])

RowAmount(row) == clean_and_convert_to_numeric(row[ColIndex(LongColumns, "amount")])

\* a charge code that names a charge: not empty, not a sentinel, and neither
\* a total nor a summary
PlainCode(code) ==
    /\ code \notin {"", "nan", "null"}
    /\ ~Contains(code, "total")
    /\ ~Contains(code, "summary")

\* a row that carries a charge: a plain code and a non-zero numeric amount
CarriesCharge(row) == PlainCode(RowCode(row)) /\ RowAmount(row) \notin {NumNaN, Num(0)}

\* the sum of the charges with code c in the blocks of unit u
BlockCharge(rows, u, c) ==
    LET rs == {r \in 1..Len(rows) :
                  /\ BlockUnit(rows, r) = u
                  /\ RowCode(rows[r]) = c
                  /\ CarriesCharge(rows[r])}
        RECURSIVE Sum(_)
        Sum(S) == IF S = {} THEN 0
                  ELSE LET r == CHOOSE r \in S : TRUE
                       IN  RowAmount(rows[r])[1] + Sum(S \ {r})
    IN  Num(Sum(rs))

\* the row of the wide table for unit u, 0 when there is none
RecordOf(df, u) ==
    LET rs == {r \in 1..Len(df.rows) : Field(df, r, "unit") = u}
    IN  IF rs = {} THEN 0 ELSE CHOOSE r \in rs : TRUE

\* whether row r of the wide table has the value v in a column named col
Holds(df, r, col, v) == r # 0 /\ InSeq(col, df.columns) /\ Field(df, r, col) = v

\* C2: a row with a blank unit cell belongs to the block of the nearest
\* preceding row with a unit, and the charge it carries is counted in that
\* unit's pivoted charge column of the output.
C2_BlankUnitRowsCounted ==
    (AfterReshape /\ exc = "none") =>
        \A r \in 1..Len(raw_df.rows) :
            ( /\ BlankUnit(raw_df.rows[r])
              /\ CarriesCharge(raw_df.rows[r])
              /\ KeepUnit(BlockUnit(raw_df.rows, r)) ) =>
                Holds(processed_df, RecordOf(processed_df, BlockUnit(raw_df.rows, r)),
                      CleanFinalName(RowCode(raw_df.rows[r])),
                      BlockCharge(raw_df.rows, BlockUnit(raw_df.rows, r),
                                  RowCode(raw_df.rows[r])))

\* C3: when no row or line of the upload matches a header signature, the
\* table locator fails with a ValueError and returns no table.
C3_HeaderNotFoundRaises ==
    (Located /\ ~HeaderFound) => (raw_df = NoFrame /\ exc = "ValueError")

\* C4: a request whose located table has no unit column, and none that can
\* be renamed to unit, ends in the answer 400 'File format error'.
C4_NoUnitColumnIsFormatError ==
    ( /\ pc = "done"
      /\ raw_df # NoFrame
      /\ ~InSeq("unit", ResolveUnitColumn(raw_df.columns)) ) =>
        response = [status |-> 400, error |-> "File format error"]

\* C5: when detection returns generic, the table locator returns a table or
\* raises a ValueError, and no other exception.
C5_GenericDetectionProceeds ==
    (format_info.format = "generic" /\ LocateRaised) => exc = "ValueError"

\* C6: validate_rent_roll returns a report for every wide table reshape
\* produces and raises nothing; the request does not end in the
\* internal-failure answer because of validation.
C6_ValidationNeverRaises ==
    (pc \in {"respond", "done"} /\ ~Empty(processed_df)) =>
        /\ exc = "none"
        /\ pc = "done" => response.status # 500

\* every row of the located table is removed by the unit filters
AllRowsFiltered(df) ==
    /\ InSeq("unit", df.columns)
    /\ df.rows # <<>>
    /\ \A r \in 1..Len(df.rows) : ~KeepUnit(Strip(Str(Field(df, r, "unit"))))

\* C7: when the table has a unit column and rows but the filters remove
\* every row, reshape returns an empty table without raising and the
\* request ends in the answer 400 'No valid data found after processing'.
C7_EmptyResultReturned ==
    (pc = "done" /\ AllRowsFiltered(raw_df)) =>
        /\ exc = "none"
        /\ response = [status |-> 400, error |-> "No valid data found after processing"]

\* the best score of the detection that has run
BestScore == format_scores[BestMatch(format_scores)]

\* C8: detection returns generic with confidence 0 and no profile exactly
\* when every profile scores 0; when some profile scores at least 1 the
\* best-scoring profile's name is returned with a confidence above 0.
C8_GenericIffZeroScore ==
    pc = "locate" =>
        /\ (format_info = NoFormat) <=> (\A p \in DOMAIN FORMAT_PROFILES : format_scores[p] = 0)
        /\ BestScore >= 1 =>
              /\ format_info.format = BestMatch(format_scores)
              /\ format_info.profile = BestMatch(format_scores)
              /\ format_info.confidence > 0

C8_Witness ==
    /\ pc = "locate"
    /\ BestScore >= 1
    /\ BestScore < MIN_DETECTION_SCORE
    /\ format_info.format # "generic"

\* the search corpus of the detection that has run
Corpus == SearchText(ContentPreview(file_content), <<>>, filename)

\* C9: a text made of the literal specific patterns of a profile is
\* detected as that profile, with a score of at least the minimum detection
\* score and the confidence that goes with it; a specific pattern counts
\* exactly when its literal text occurs in the search corpus.
C9_SpecificPatternsDetected ==
    pc = "locate" =>
        \A p \in DOMAIN FORMAT_PROFILES :
            /\ (file_content = PatternText(p) /\ filename = "") =>
                   /\ format_info.format = p
                   /\ format_scores[p] >= MIN_DETECTION_SCORE
                   /\ format_info.confidence = Min(100, format_scores[p] * 5)
            /\ \A i \in 1..Len(FORMAT_PROFILES[p].specific_patterns) :
                   SpecificPatternHit(p, i, Corpus)
                       <=> Contains(Corpus, CleanedProfiles[p]["specific_patterns"][i])

\* a long table in which every row carries a unit, a charge code and a
\* non-zero numeric amount, and no two rows carry the same unit
OneChargeRowPerUnit(df) ==
    /\ df.rows # <<>>
    /\ \A r \in 1..Len(df.rows) :
           /\ ~BlankUnit(df.rows[r])
           /\ ~isna(Field(df, r, "charge_code"))
           /\ RowCode(df.rows[r]) # ""
           /\ RowAmount(df.rows[r]) \notin {NumNaN, Num(0)}
    /\ \A r, s \in 1..Len(df.rows) :
           r # s => Strip(Field(df, r, "unit")) # Strip(Field(df, s, "unit"))

\* one record per unit of the long table, the column named after each
\* row's charge code holding the row's amount
RoundTrip(df, wide) ==
    /\ Len(wide.rows) = Len(df.rows)
    /\ \A r \in 1..Len(df.rows) :
           Holds(wide, RecordOf(wide, Strip(Field(df, r, "unit"))),
                 CleanFinalName(RowCode(df.rows[r])), RowAmount(df.rows[r]))

\* no unit is a total or separator row and no charge code is a sentinel or
\* names a total or a summary
PlainUnitsAndCodes(df) ==
    \A r \in 1..Len(df.rows) :
        /\ KeepUnit(Strip(Str(Field(df, r, "unit"))))
        /\ PlainCode(RowCode(df.rows[r]))

-----------------------------------------------------------------------------
(* Reshaping alone, on long tables with unit attributes: the resident      *)
(* fields, the market rent and the move-out date next to the charges.      *)

\* the resident columns a long table comes with: both, the code only, or
\* neither
ResidentColumns ==
    { <<"resident_name", "resident_code">>,
      <<"notes", "resident_code">>,
      <<"notes", "memo">> }

BlockColumns(res) ==
    <<"unit", res[1], "charge_code", "amount", "market_rent", "move_out", res[2]>>

BlockPool ==
    << <<"101", "J. Doe", "rent", "900", "$1,200.50", NaN, "t001">>,
       <<NaN, NaN, "rent", "50", NaN, "2024-03-31", NaN>>,
       <<"102", NaN, NaN, NaN, "0", NaN, NaN>>,
       <<"101", NaN, "rent", "50", NaN, "2024-03-31", NaN>>,
       <<"103", "vacant", "Pet Fee", "$1,200.50", "(500)", "n/a", "t003">>,
       <<"none", "None", "rent", "abc", "abc", NaN, NaN>>,
       <<"105", " ", "rent", " ", NaN, NaN, "VACANT">>,
       <<"104", " vacant ", "pet fee", "(500)", "1500", "2024-03-31", NaN>> >>

\* the rows of BlockPool at the positions S, in the pool's order
BlockRows(S) ==
    [k \in 1..Cardinality(S) |->
        BlockPool[CHOOSE i \in S : Cardinality({j \in S : j < i}) = k - 1]]

\* the long tables of at most MaxBlockRows rows: the pool, with rows left out
BlockTables ==
    {[columns |-> BlockColumns(res), rows |-> BlockRows(S)] :
        res \in ResidentColumns,
        S \in {T \in SUBSET (1..Len(BlockPool)) : Cardinality(T) <= MaxBlockRows}}

InitBlocks ==
    /\ pc = "reshape"
    /\ kind = "csv"
    /\ filename = "upload.csv"
    /\ file_content = ""
    /\ grid = <<>>
    /\ format_info = NoFormat
    /\ format_scores = NoScores
    /\ raw_df \in BlockTables
    /\ processed_df = NoFrame
    /\ validation = NoReport
    /\ exc = "none"
    /\ response = NoResponse

NextBlocks ==
    \/ Reshape
    \/ Validate
    \/ Respond

SpecBlocks == InitBlocks /\ [][NextBlocks]_vars

\* the trimmed unit cell of a long-table row
RowUnit(row) == Strip(Str(row[ColIndex(LongColumns, "unit")]))

\* the sum of the amounts of the rows that carry unit u and charge code c,
\* rows without a numeric amount left out
RECURSIVE SumAmounts(_, _)
SumAmounts(rows, S) ==
    IF S = {} THEN 0
    ELSE LET r == CHOOSE r \in S : TRUE
         IN  RowAmount(rows[r])[1] + SumAmounts(rows, S \ {r})

UnitCharge(rows, u, c) ==
    Num(SumAmounts(rows, {r \in 1..Len(rows) :
                             /\ RowUnit(rows[r]) = u
                             /\ RowCode(rows[r]) = c
                             /\ RowAmount(rows[r]) # NumNaN}))

\* the rows of a long table that carry unit u and a charge with code c
ChargeRowsOf(rows, u, c) ==
    {r \in 1..Len(rows) : RowUnit(rows[r]) = u /\ RowCode(rows[r]) = c /\ CarriesCharge(rows[r])}

\* C11: for every unit and charge code, the pivoted cell of the unit's
\* record is the sum of the amounts of all rows that carry that unit and
\* that charge code, not the first or the last amount only.
C11_DuplicateCodesSummed ==
    (AfterReshape /\ exc = "none") =>
        \A r \in 1..Len(raw_df.rows) :
            (CarriesCharge(raw_df.rows[r]) /\ KeepUnit(RowUnit(raw_df.rows[r]))) =>
                Holds(processed_df, RecordOf(processed_df, RowUnit(raw_df.rows[r])),
                      CleanFinalName(RowCode(raw_df.rows[r])),
                      UnitCharge(raw_df.rows, RowUnit(raw_df.rows[r]), RowCode(raw_df.rows[r])))

C11_Witness ==
    /\ pc = "validate"
    /\ Cardinality(ChargeRowsOf(raw_df.rows, "101", "rent")) = 2
    /\ Holds(processed_df, RecordOf(processed_df, "101"), "rent", Num(100000))

\* whether a resident cell is empty: missing, or blank after trimming
EmptyResident(v) == isna(v) \/ Strip(v) = ""

\* the column the occupancy of a table is derived from, "" when it has
\* neither resident column
ResidentField(columns) ==
    IF InSeq("resident_name", columns) THEN "resident_name"
    ELSE IF InSeq("resident_code", columns) THEN "resident_code"
    ELSE ""

\* the rows of the block of unit u: the rows that carry u and the rows with
\* a blank unit cell that follow them
BlockOf(rows, u) == {r \in 1..Len(rows) : BlockUnit(rows, r) = u}

\* a unit with an attribute row, an empty resident field on every row of
\* its block and no row with a valid charge
VacantWithoutCharges(df, u) ==
    /\ KeepUnit(u)
    /\ ResidentField(df.columns) # ""
    /\ BlockOf(df.rows, u) # {}
    /\ \A r \in BlockOf(df.rows, u) :
           /\ EmptyResident(Field(df, r, ResidentField(df.columns)))
           /\ ~CarriesCharge(df.rows[r])

\* the columns of the wide table that hold pivoted charges
ChargeColumns(wide) ==
    {i \in 1..Len(wide.columns) :
        wide.columns[i] \notin
            {primary_cols[j] : j \in 1..Len(primary_cols)} \cup {"occupancy_status", "actual_rent"}}

\* the records of the wide table for unit u
RecordsOf(wide, u) == {k \in 1..Len(wide.rows) : Field(wide, k, "unit") = u}

\* C12: a unit with an attribute row, an empty resident field and no row
\* with a valid charge appears in the output exactly once, with every
\* charge column 0 and occupancy_status 'Vacant'.
C12_VacantUnitIncluded ==
    (AfterReshape /\ exc = "none") =>
        \A r \in 1..Len(raw_df.rows) :
            VacantWithoutCharges(raw_df, RowUnit(raw_df.rows[r])) =>
                /\ Cardinality(RecordsOf(processed_df, RowUnit(raw_df.rows[r]))) = 1
                /\ \A k \in RecordsOf(processed_df, RowUnit(raw_df.rows[r])) :
                       /\ Field(processed_df, k, "occupancy_status") = "Vacant"
                       /\ \A i \in ChargeColumns(processed_df) :
                              processed_df.rows[k][i] = Num(0)

C12_Witness ==
    /\ pc = "validate"
    /\ VacantWithoutCharges(raw_df, "102")
    /\ Holds(processed_df, RecordOf(processed_df, "101"), "rent", Num(90000))
    /\ Holds(processed_df, RecordOf(processed_df, "102"), "rent", Num(0))

\* the move-out date of row r of a long table, missing when the cell holds
\* no date
MoveOut(df, r) == to_datetime(Field(df, r, "move_out"))

\* rows r and r + 1 are the whole block of one unit, the move-out date is on
\* the second row only, and row r + 2 opens the block of another unit that
\* has no resident and no move-out value on any row
MoveOutOnSecondRow(df, r) ==
    /\ r + 2 <= Len(df.rows)
    /\ ~BlankUnit(df.rows[r])
    /\ ~BlankUnit(df.rows[r + 2])
    /\ KeepUnit(RowUnit(df.rows[r]))
    /\ KeepUnit(RowUnit(df.rows[r + 2]))
    /\ RowUnit(df.rows[r]) # RowUnit(df.rows[r + 2])
    /\ BlockOf(df.rows, RowUnit(df.rows[r])) = {r, r + 1}
    /\ MoveOut(df, r) = NumNaN
    /\ MoveOut(df, r + 1) # NumNaN
    /\ \A s \in BlockOf(df.rows, RowUnit(df.rows[r + 2])) :
           /\ isna(Field(df, s, "move_out"))
           /\ ResidentField(df.columns) # "" =>
                  EmptyResident(Field(df, s, ResidentField(df.columns)))

\* C13: when the move-out date of a unit block is on its second row only
\* and the adjacent vacant block has no move-out value, the first unit's
\* record carries that date and the second unit's record has none.
C13_MoveOutExclusion ==
    (AfterReshape /\ exc = "none") =>
        \A r \in 1..Len(raw_df.rows) :
            MoveOutOnSecondRow(raw_df, r) =>
                /\ Holds(processed_df, RecordOf(processed_df, RowUnit(raw_df.rows[r])),
                         "move_out", MoveOut(raw_df, r + 1))
                /\ Holds(processed_df, RecordOf(processed_df, RowUnit(raw_df.rows[r + 2])),
                         "move_out", NumNaN)

\* the same, for blocks whose second row repeats the unit identifier
C13_MoveOutWithUnitRepeated ==
    (AfterReshape /\ exc = "none") =>
        \A r \in 1..Len(raw_df.rows) :
            (MoveOutOnSecondRow(raw_df, r) /\ ~BlankUnit(raw_df.rows[r + 1])) =>
                /\ Holds(processed_df, RecordOf(processed_df, RowUnit(raw_df.rows[r])),
                         "move_out", MoveOut(raw_df, r + 1))
                /\ Holds(processed_df, RecordOf(processed_df, RowUnit(raw_df.rows[r + 2])),
                         "move_out", NumNaN)

C13_RepeatedWitness ==
    /\ pc = "validate"
    /\ \E r \in 1..Len(raw_df.rows) :
           MoveOutOnSecondRow(raw_df, r) /\ ~BlankUnit(raw_df.rows[r + 1])

\* the unit attribute columns of the wide table
AttributeColumns(wide) ==
    {i \in 1..Len(wide.columns) :
        wide.columns[i] # "unit"
            /\ wide.columns[i] \in {primary_cols[j] : j \in 1..Len(primary_cols)}}

\* whether value v of attribute column col is found, converted, on a row of
\* the block of unit u
FoundInBlock(df, u, col, v) ==
    \E r \in BlockOf(df.rows, u) : ConvertedCell(col, Field(df, r, col)) = v

\* C14: every attribute of a unit's record is missing or a value found on a
\* row of that unit's own block, never a value of a row of another unit's
\* block, with no separator row needed between adjacent blocks.
C14_ForwardFillBoundary ==
    (AfterReshape /\ exc = "none") =>
        \A k \in 1..Len(processed_df.rows) :
            \A i \in AttributeColumns(processed_df) :
                \/ processed_df.rows[k][i] = MissingOf(processed_df.columns[i])
                \/ FoundInBlock(raw_df, Field(processed_df, k, "unit"),
                                processed_df.columns[i], processed_df.rows[k][i])

C14_Witness ==
    /\ pc = "validate"
    /\ \E r \in 1..(Len(raw_df.rows) - 1) :
           RowUnit(raw_df.rows[r]) = "101" /\ RowUnit(raw_df.rows[r + 1]) = "102"
    /\ Holds(processed_df, RecordOf(processed_df, "101"), "resident_name", "J. Doe")
    /\ Holds(processed_df, RecordOf(processed_df, "102"), "resident_name", NaN)
    /\ Holds(processed_df, RecordOf(processed_df, "101"), "move_out", NumNaN)

\* the occupancy the resident field x stands for: vacant when x is
\* missing, blank after trimming, or one of the vacancy words whatever the
\* case
VacancyWords == {"VACANT", "NAN", "NULL", "NONE"}

ExpectedOccupancy(x) ==
    IF isna(x) \/ Strip(x) = "" \/ Upper(x) \in VacancyWords THEN "Vacant" ELSE "Occupied"

\* C15: when the table has a resident_name column, or else a resident_code
\* column, a record is 'Vacant' exactly when that field is missing, blank
\* after trimming or a vacancy word in any case, and 'Occupied' otherwise.
C15_OccupancyDerivation ==
    (AfterReshape /\ exc = "none" /\ ResidentField(raw_df.columns) # "") =>
        \A k \in 1..Len(processed_df.rows) :
            Field(processed_df, k, "occupancy_status") =
                ExpectedOccupancy(Field(processed_df, k, ResidentField(raw_df.columns)))

C15_Witness ==
    /\ pc = "validate"
    /\ ResidentField(raw_df.columns) = "resident_code"
    /\ Holds(processed_df, RecordOf(processed_df, "101"), "occupancy_status", "Occupied")
    /\ Holds(processed_df, RecordOf(processed_df, "105"), "resident_code", "VACANT")
    /\ Holds(processed_df, RecordOf(processed_df, "105"), "occupancy_status", "Vacant")

C15_NameWitness ==
    /\ pc = "validate"
    /\ ResidentField(raw_df.columns) = "resident_name"
    /\ Holds(processed_df, RecordOf(processed_df, "103"), "resident_name", "vacant")
    /\ Holds(processed_df, RecordOf(processed_df, "103"), "resident_code", "t003")
    /\ Holds(processed_df, RecordOf(processed_df, "103"), "occupancy_status", "Vacant")
    /\ Holds(processed_df, RecordOf(processed_df, "104"), "occupancy_status", "Occupied")

\* C16: every record reshape returns has occupancy_status 'Occupied' or
\* 'Vacant'.
C16_OccupancyClosedSet ==
    (AfterReshape /\ exc = "none") =>
        \A k \in 1..Len(processed_df.rows) :
            Field(processed_df, k, "occupancy_status") \in {"Occupied", "Vacant"}

\* C17: every record has an actual_rent field, equal to the record's
\* pivoted rent column when there is one and to 0 otherwise.
C17_ActualRentDerivation ==
    (AfterReshape /\ exc = "none") =>
        \A k \in 1..Len(processed_df.rows) :
            Holds(processed_df, k, "actual_rent",
                  IF InSeq("rent", processed_df.columns)
                  THEN Field(processed_df, k, "rent")
                  ELSE Num(0))

\* C17, first half alone: when the output has a pivoted rent column,
\* actual_rent is that column
C17_ActualRentIsRentColumn ==
    (AfterReshape /\ exc = "none" /\ InSeq("rent", processed_df.columns)) =>
        \A k \in 1..Len(processed_df.rows) :
            Holds(processed_df, k, "actual_rent", Field(processed_df, k, "rent"))

\* the text a sentinel unit is recognised by: trimmed, case ignored
SentinelUnit(unit) == Lower(Strip(unit)) \in {"", "nan", "null", "none"}

\* C18: no record reshape returns has a unit that, trimmed and compared
\* without regard to case, is '', 'nan', 'null' or 'none'.
C18_SentinelUnitsDropped ==
    (AfterReshape /\ exc = "none") =>
        \A k \in 1..Len(processed_df.rows) : ~SentinelUnit(Field(processed_df, k, "unit"))

\* C18 for the spellings the program lists: no record has a unit in
\* invalid_units
C18_ListedSentinelsDropped ==
    (AfterReshape /\ exc = "none") =>
        \A k \in 1..Len(processed_df.rows) : Field(processed_df, k, "unit") \notin invalid_units


\* unit u opens two blocks of the long table, with the block of another
\* unit between them
SeparateBlocks(rows, u) ==
    \E r, s, t \in 1..Len(rows) :
        /\ r < s /\ s < t
        /\ RowUnit(rows[r]) = u
        /\ RowUnit(rows[t]) = u
        /\ ~BlankUnit(rows[s])
        /\ RowUnit(rows[s]) # u

\* the units of the long table that survive the unit filters and come in
\* two separate blocks
DuplicatedUnits(df) ==
    {u \in {RowUnit(df.rows[r]) : r \in 1..Len(df.rows)} :
        KeepUnit(u) /\ SeparateBlocks(df.rows, u)}

\* whether the report has a finding about duplicate unit numbers
ReportsDuplicates(report) ==
    \E i \in 1..Len(report.warnings) : Contains(report.warnings[i], "Duplicate unit numbers found")

\* C19: when a unit identifier comes in two separate blocks of the long
\* table, reshape keeps a record for each block, and the validator, which
\* runs to the end, reports the duplicate.
C19_DuplicateUnitsReported ==
    DuplicatedUnits(raw_df) # {} =>
        /\ (AfterReshape /\ exc = "none") =>
               \A u \in DuplicatedUnits(raw_df) : Cardinality(RecordsOf(processed_df, u)) >= 2
        /\ (pc \in {"respond", "done"} /\ ~Empty(processed_df)) =>
               (exc = "none" /\ ReportsDuplicates(validation))

\* the number a currency cell stands for, in hundredths: '$' and thousands
\* commas dropped, '(n)' negative, anything that is not a number missing
ExpectedAmount(cell) ==
    CASE cell = "$1,200.50" -> Num(120050)
      [] cell = "(500)"     -> Num(0 - 50000)
      [] cell = "1500"      -> Num(150000)
      [] cell = "900"       -> Num(90000)
      [] cell = "50"        -> Num(5000)
      [] cell = "0"         -> Num(0)
      [] OTHER              -> NumNaN

\* the rows of a long table that carry unit u
RowsOfUnit(rows, u) == {r \in 1..Len(rows) : RowUnit(rows[r]) = u}

\* the rows that carry unit u and charge code c with an amount that is a
\* number
AmountRows(rows, u, c) ==
    {r \in RowsOfUnit(rows, u) :
        RowCode(rows[r]) = c /\ ExpectedAmount(rows[r][ColIndex(LongColumns, "amount")]) # NumNaN}

RECURSIVE SumExpected(_, _)
SumExpected(rows, S) ==
    IF S = {} THEN 0
    ELSE LET r == CHOOSE r \in S : TRUE
         IN  ExpectedAmount(rows[r][ColIndex(LongColumns, "amount")])[1]
                 + SumExpected(rows, S \ {r})

\* C20: a currency cell is cleaned to the number it stands for ('$' and
\* commas stripped, '(n)' read as -n) and an empty or unparseable cell to
\* missing, not 0; a row whose amount is missing adds nothing to a pivot
\* sum.
C20_CurrencyCleaning ==
    (AfterReshape /\ exc = "none") =>
        \A r \in 1..Len(raw_df.rows) :
            KeepUnit(RowUnit(raw_df.rows[r])) =>
                /\ RowsOfUnit(raw_df.rows, RowUnit(raw_df.rows[r])) = {r} =>
                       Holds(processed_df, RecordOf(processed_df, RowUnit(raw_df.rows[r])),
                             "market_rent", ExpectedAmount(Field(raw_df, r, "market_rent")))
                /\ (PlainCode(RowCode(raw_df.rows[r]))
                        /\ InSeq(CleanFinalName(RowCode(raw_df.rows[r])), processed_df.columns)) =>
                       Holds(processed_df, RecordOf(processed_df, RowUnit(raw_df.rows[r])),
                             CleanFinalName(RowCode(raw_df.rows[r])),
                             Num(SumExpected(raw_df.rows,
                                     AmountRows(raw_df.rows, RowUnit(raw_df.rows[r]),
                                                RowCode(raw_df.rows[r])))))

C20_Witness ==
    /\ pc = "validate"
    /\ Holds(processed_df, RecordOf(processed_df, "101"), "market_rent", Num(120050))
    /\ Holds(processed_df, RecordOf(processed_df, "103"), "market_rent", Num(0 - 50000))
    /\ Holds(processed_df, RecordOf(processed_df, "103"), "pet_fee", Num(120050))
    /\ Holds(processed_df, RecordOf(processed_df, "105"), "market_rent", NumNaN)
    /\ Holds(processed_df, RecordOf(processed_df, "105"), "rent", Num(0))
    /\ AmountRows(raw_df.rows, "105", "rent") = {}

-----------------------------------------------------------------------------
(* Validation alone, on wide tables: one record per row, numbers and dates *)
(* already converted.                                                      *)

\* VALIDATION_THRESHOLDS of config.py: the ceilings and floors, and the
\* penalties of the findings
max_reasonable_rent == 50000

min_reasonable_sqft == 100

negative_market_rent == 10

date_mismatch == 15

duplicate_units == 5

WideColumns ==
    <<"unit", "unit_type", "sq_ft", "market_rent", "move_in", "move_out", "lease_expiration">>

\* records: a unit, the same unit again, a negative market rent, a move-out
\* before the move-in, a missing area with a rent above the ceiling
WidePool ==
    << <<"101", "1BR", Num(75000), Num(150000), Num(20230101), NumNaN, Num(20241231)>>,
       <<"101", "1BR", Num(75000), Num(150000), Num(20230101), NumNaN, NumNaN>>,
       <<"102", "2BR", Num(90000), Num(0 - 50000), Num(20230501), NumNaN, Num(20250430)>>,
       <<"103", "1BR", Num(80000), Num(120000), Num(20240601), Num(20240101), NumNaN>>,
       <<"104", "1BR", NumNaN, Num(6000000), NumNaN, NumNaN, NumNaN>> >>

\* the date columns a wide table comes with
DateColumnSets == SUBSET {"move_in", "move_out", "lease_expiration"}

\* the positions of WideColumns kept when only the date columns D are there
KeptColumns(D) ==
    SelectSeq([i \in 1..Len(WideColumns) |-> i],
              LAMBDA i : WideColumns[i] \notin {"move_in", "move_out", "lease_expiration"}
                         \/ WideColumns[i] \in D)

\* the wide table of the pool records at the positions S with the date
\* columns D
WideTable(S, D) ==
    [columns |-> [k \in 1..Len(KeptColumns(D)) |-> WideColumns[KeptColumns(D)[k]]],
     rows |-> [r \in 1..Cardinality(S) |->
                  [k \in 1..Len(KeptColumns(D)) |->
                      WidePool[CHOOSE i \in S : Cardinality({j \in S : j < i}) = r - 1]
                              [KeptColumns(D)[k]]]]]

WideTables ==
    {WideTable(S, D) :
        S \in {T \in SUBSET (1..Len(WidePool)) : T # {} /\ Cardinality(T) <= MaxWideRows},
        D \in DateColumnSets}

InitValidate ==
    /\ pc = "validate"
    /\ kind = "csv"
    /\ filename = "upload.csv"
    /\ file_content = ""
    /\ grid = <<>>
    /\ format_info = NoFormat
    /\ format_scores = NoScores
    /\ raw_df = NoFrame
    /\ processed_df \in WideTables
    /\ validation = NoReport
    /\ exc = "none"
    /\ response = NoResponse

NextValidate ==
    \/ Validate
    \/ Respond

SpecValidate == InitValidate /\ [][NextValidate]_vars

-----------------------------------------------------------------------------
(* Column normalization alone: normalize_column_names applied, and applied *)
(* again, to a table with the given column names.                          *)

\* column names as they come out of a header: canonical names, names of the
\* rename tables, names with capitals and spaces
ColumnNames ==
    { "unit", "unit_type", "resident_name", "sq_ft",
      "Resident", "apartment", "Apt No", "Tenant", "Unit  Sqft", "Unit No" }

ColumnLists == SeqUpTo(ColumnNames, MaxColumns) \ {<<>>}

\* the formats the normalizer is called with: none, or a detected profile
NormalizerFormats ==
    {NoFormat} \cup {[format |-> p, confidence |-> 100, profile |-> p] :
                        p \in DOMAIN FORMAT_PROFILES}

\* one call of normalize_column_names on the table
Normalize ==
    /\ pc \in {"normalize", "normalized"}
    /\ raw_df' = normalize_column_names(raw_df, format_info.profile)
    /\ pc' = IF pc = "normalize" THEN "normalized" ELSE "renormalized"
    /\ UNCHANGED <<kind, filename, file_content, grid, format_info, format_scores,
                   processed_df, validation, exc, response>>

\* the header row of the sheet is kept in grid, the table under it in raw_df
InitNormalize ==
    /\ pc = "normalize"
    /\ kind = "excel"
    /\ filename = "upload.xlsx"
    /\ file_content = ""
    /\ \E names \in ColumnLists :
          /\ grid = <<names>>
          /\ raw_df = [columns |-> names, rows |-> <<>>]
    /\ format_info \in NormalizerFormats
    /\ format_scores = NoScores
    /\ processed_df = NoFrame
    /\ validation = NoReport
    /\ exc = "none"
    /\ response = NoResponse

NextNormalize == Normalize

SpecNormalize == InitNormalize /\ [][NextNormalize]_vars

-----------------------------------------------------------------------------
(* Table location alone: detection and the locator of either file kind on  *)
(* sheets with a header row, an optional second header row, and rows of    *)
(* section markers, units and footers in any order.                        *)

SubHeaderRow == <<"Number", NaN, "Name", "Monthly">>

SecondRows == {<<>>, <<EmptyRow>>, <<SubHeaderRow>>}

BodyRows == {MarkerRow, Unit101, FooterRow}

LocateGrids ==
    {<<HeaderRow>> \o second \o body :
        second \in SecondRows, body \in SeqUpTo(BodyRows, MaxBodyRows)}

InitLocate ==
    /\ pc = "detect"
    /\ filename \in Filenames
    /\ kind = FileKind(filename)
    /\ \E g \in LocateGrids :
          /\ grid = IF kind = "excel" THEN g ELSE <<>>
          /\ file_content = IF kind = "excel" THEN "" ELSE CsvText(g)
    /\ format_info = NoFormat
    /\ format_scores = NoScores
    /\ raw_df = NoFrame
    /\ processed_df = NoFrame
    /\ validation = NoReport
    /\ exc = "none"
    /\ response = NoResponse

NextLocate ==
    \/ Detect
    \/ LocateExcel
    \/ LocateCsv

SpecLocate == InitLocate /\ [][NextLocate]_vars

\* the steps after validate_rent_roll has run on a table
AfterValidate == pc \in {"respond", "done"} /\ ~Empty(processed_df)

\* the records of a wide table whose number in column col satisfies Below
HasNumber(df, r, col) == InSeq(col, df.columns) /\ Field(df, r, col) # NumNaN

\* the unit identifiers that more than one record of the wide table carries
DuplicateIds(df) ==
    {Field(df, r, "unit") : r \in {k \in 1..Len(df.rows) :
        \E j \in 1..Len(df.rows) : j # k /\ Field(df, j, "unit") = Field(df, k, "unit")}}

\* the records with a market rent below zero
NegativeRents(df) ==
    {r \in 1..Len(df.rows) : HasNumber(df, r, "market_rent") /\ Field(df, r, "market_rent")[1] < 0}

\* the records with a market rent above the ceiling
HighRents(df) ==
    {r \in 1..Len(df.rows) :
        HasNumber(df, r, "market_rent")
            /\ Field(df, r, "market_rent")[1] > 100 * max_reasonable_rent}

\* the records with a missing area or one under the floor
InvalidAreas(df) ==
    {r \in 1..Len(df.rows) :
        ~HasNumber(df, r, "sq_ft") \/ Field(df, r, "sq_ft")[1] < 100 * min_reasonable_sqft}

\* the records whose move-out date is earlier than their move-in date
DateMismatches(df) ==
    {r \in 1..Len(df.rows) :
        /\ HasNumber(df, r, "move_in")
        /\ HasNumber(df, r, "move_out")
        /\ Field(df, r, "move_out")[1] < Field(df, r, "move_in")[1]}

\* whether a list of findings has one that holds the text
Reports(findings, text) == \E i \in 1..Len(findings) : Contains(findings[i], text)

\* the only failing conditions of the table are one duplicated unit
\* identifier and one negative market rent
OneDuplicateOneNegative(df) ==
    /\ Cardinality(DuplicateIds(df)) = 1
    /\ Cardinality(NegativeRents(df)) = 1
    /\ HighRents(df) = {}
    /\ InvalidAreas(df) = {}
    /\ DateMismatches(df) = {}

\* C21: for a wide table whose only failing conditions are one duplicated
\* unit id and one negative market rent, validate returns the score
\* 100 - 5 - 10 = 85 and reports both conditions.
C21_ScoreForTwoFindings ==
    (AfterValidate /\ OneDuplicateOneNegative(processed_df)) =>
        /\ exc = "none"
        /\ validation.data_quality_score = 100 - duplicate_units - negative_market_rent
        /\ Reports(validation.warnings, "Duplicate unit numbers found")
        /\ Reports(validation.warnings, "Units with negative market rent")

\* C23: when a record has a move-out date before its move-in date,
\* validate appends exactly one move-out-before-move-in error and subtracts
\* the date_mismatch penalty once, whichever date columns the table has.
C23_DateMismatchCountedOnce ==
    ( /\ AfterValidate
      /\ DateMismatches(processed_df) # {}
      /\ DuplicateIds(processed_df) = {}
      /\ NegativeRents(processed_df) = {}
      /\ HighRents(processed_df) = {}
      /\ InvalidAreas(processed_df) = {} ) =>
        /\ exc = "none"
        /\ validation.data_quality_score = 100 - date_mismatch
        /\ Cardinality({i \in 1..Len(validation.errors) :
               Contains(validation.errors[i], "Units with move-out before move-in")}) = 1

\* whether validate_rent_roll returned a report for the table, and not an
\* exception
ReportReturned == exc = "none"

\* C29: for every table, validate returns a data_quality_score between 0
\* and 100.
C29_ScoreRange ==
    AfterValidate =>
        /\ ReportReturned
        /\ validation.data_quality_score \in 0..100

\* the highest score of the detection that has run
MaxScore == CHOOSE s \in {format_scores[p] : p \in DOMAIN FORMAT_PROFILES} :
                \A p \in DOMAIN FORMAT_PROFILES : format_scores[p] <= s

\* the profiles that share the highest score
TopProfiles == {p \in DOMAIN FORMAT_PROFILES : format_scores[p] = MaxScore}

\* the place of a profile in the registry
RegistryPlace(p) == CHOOSE i \in 1..Len(ProfileOrder) : ProfileOrder[i] = p

\* C28: detection returns a profile with the highest score and, when
\* several profiles share it, the one listed first in the registry.
C28_WinnerAndTieBreak ==
    (pc = "locate" /\ MaxScore >= 1) =>
        /\ format_info.format \in TopProfiles
        /\ \A p \in TopProfiles : RegistryPlace(format_info.format) <= RegistryPlace(p)
        /\ ProfileOrder = <<"yardi", "realpage", "appfolio", "entrata", "mri">>

C28_Witness ==
    /\ pc = "locate"
    /\ MaxScore >= 1
    /\ {"yardi", "realpage"} \subseteq TopProfiles
    /\ format_info.format = "yardi"

\* the scores of a detection in which one profile scores s and the others 0
ScoresWith(s) == [p \in DOMAIN FORMAT_PROFILES |-> IF p = "yardi" THEN s ELSE 0]

\* C30: the confidence lies in 0..100, is 0 exactly when the winning score
\* is 0, and is not lower than the confidence of any lower winning score.
C30_ConfidenceMonotonic ==
    pc = "locate" =>
        /\ format_info.confidence \in 0..100
        /\ (format_info.confidence = 0) <=> (MaxScore = 0)
        /\ \A s \in 0..MaxScore :
               DetectionResult(ScoresWith(s)).confidence <= format_info.confidence

C30_Witness ==
    /\ pc = "locate"
    /\ MaxScore > 20
    /\ format_info.confidence = 100
    /\ DetectionResult(ScoresWith(MIN_DETECTION_SCORE - 1)).confidence
           < DetectionResult(ScoresWith(MIN_DETECTION_SCORE)).confidence

\* the canonical vocabulary of column names
CanonicalNames ==
    {primary_cols[j] : j \in 1..Len(primary_cols)} \cup {"charge_code", "amount"}

\* a list of canonical column names with 'unit' among them
Canonical(names) ==
    /\ InSeq("unit", names)
    /\ \A i \in 1..Len(names) : names[i] \in CanonicalNames

\* C22: normalize_column_names leaves a list of canonical names that
\* includes 'unit' unchanged, for every profile and for none, and a second
\* application to a normalized table changes nothing.
C22_NormalizerIdempotent ==
    /\ [](( pc = "normalized" /\ Canonical(grid[1]) ) => raw_df.columns = grid[1])
    /\ [][(pc = "normalized" /\ pc' = "renormalized") => raw_df' = raw_df]_vars

C22_Witness ==
    /\ pc = "renormalized"
    /\ grid[1] = <<"unit_type", "unit">>
    /\ raw_df.columns = grid[1]
    /\ format_info.profile = "yardi"

C22_RenamedWitness ==
    /\ pc = "renormalized"
    /\ grid[1] = <<"Unit  Sqft", "Resident">>
    /\ raw_df.columns = <<"sq_ft", "resident_code">>
    /\ format_info.profile = "yardi"

\* the names after cleaning and the rename tables, before the search for a
\* unit column
RenamedColumns(names, profile) ==
    ApplyStandardMappings(
        IF profile = "None" THEN [i \in 1..Len(names) |-> CleanColumnName(names[i])]
        ELSE ApplyProfileMappings([i \in 1..Len(names) |-> CleanColumnName(names[i])], profile),
        1)

\* whether a column name can stand for the unit column
UnitLike(name) ==
    Contains(name, "unit") \/ Contains(name, "apt") \/ Contains(name, "apartment")

\* the names with the first unit-like one renamed to 'unit' when none is
\* named 'unit'
WithUnitColumn(names) ==
    IF InSeq("unit", names) \/ \A i \in 1..Len(names) : ~UnitLike(names[i]) THEN names
    ELSE [names EXCEPT ![CHOOSE i \in 1..Len(names) :
                            UnitLike(names[i]) /\ \A j \in 1..(i - 1) : ~UnitLike(names[j])]
                       = "unit"]

\* C24: when no column is named 'unit' after the rename tables, the first
\* column whose name contains 'unit', 'apt' or 'apartment' is renamed to
\* 'unit' and every other name is left as it is.
C24_UnitColumnFallback ==
    pc = "normalized" =>
        raw_df.columns = WithUnitColumn(RenamedColumns(grid[1], format_info.profile))

\* a header without a column named 'unit' whose first column names the
\* apartment
C24_ApartmentColumn ==
    /\ pc = "normalized"
    /\ grid[1] = <<"Apt No", "Resident">>
    /\ format_info.profile = "None"
    /\ raw_df.columns = <<"apt_no", "resident">>

\* the rows of the uploaded sheet, an empty cell being NaN: the grid of a
\* spreadsheet, the comma-separated lines of a CSV file
SheetRows ==
    IF kind = "excel" THEN grid
    ELSE [r \in 1..Len(Lines(file_content)) |->
             [i \in 1..Len(Split(Lines(file_content)[r], ",")) |->
                 IF Split(Lines(file_content)[r], ",")[i] = "" THEN NaN
                 ELSE Split(Lines(file_content)[r], ",")[i]]]

\* the locator returned a table
TableLocated == Located /\ raw_df # NoFrame

\* the index of the first row after the header rows the locator read
HeaderEnd ==
    IF kind = "excel"
    THEN ExcelHeader(grid, ExcelHeaderRow(grid, format_info),
                     FORMAT_PROFILES[format_info.profile].has_two_row_header).data_start_idx
    ELSE CsvHeader(Lines(file_content), CsvHeaderLine(Lines(file_content), format_info),
                   FORMAT_PROFILES[format_info.profile].has_two_row_header).data_start_idx

\* the locator read the first two rows of the sheet as a two-row header
TwoRowHeaderRead == TableLocated /\ HeaderEnd = 2

Cell(row, i) == IF i <= Len(row) /\ ~isna(row[i]) THEN Strip(row[i]) ELSE ""

\* the name of column i (counted from 1) of a two-row header
CombinedName(row1, row2, i) ==
    IF Cell(row1, i) # "" /\ Cell(row2, i) # ""
    THEN IF Cell(row1, i) # Cell(row2, i) THEN Cell(row1, i) \o " " \o Cell(row2, i)
         ELSE Cell(row1, i)
    ELSE IF Cell(row1, i) # "" THEN Cell(row1, i)
    ELSE IF Cell(row2, i) # "" THEN Cell(row2, i)
    ELSE ColumnPlaceholder(i - 1)

\* C25: when a two-row header is read, by the spreadsheet and by the CSV
\* locator, column i is named by the two cells joined with one space when
\* both are non-empty and different, by the one non-empty cell when only one
\* is, and by 'column_<i>' when both are empty; the located table carries
\* these names, normalized.
C25_TwoRowHeaderCombination ==
    TwoRowHeaderRead =>
        raw_df.columns =
            NormalizedColumns(
                [i \in 1..Len(SheetRows[1]) |-> CombinedName(SheetRows[1], SheetRows[2], i)],
                format_info.profile)

\* C25 for the CSV locator alone, on the two-row headers of these sheets
C25_CsvTwoRowHeader == (kind = "csv") => C25_TwoRowHeaderCombination

\* the spreadsheet with a sub-header under every header cell but one
C25_SubHeaderSheet ==
    /\ TwoRowHeaderRead
    /\ kind = "excel"
    /\ grid = <<HeaderRow, SubHeaderRow, Unit101>>
    /\ raw_df.columns = <<"unit", "unit_type", "resident_name", "market_rent">>

\* the rows of the sheet that carry a section marker, among the ten rows
\* from the first row after the header
MarkerRows ==
    {i \in HeaderEnd..(Min(HeaderEnd + 10, Len(SheetRows)) - 1) : SheetRows[i + 1] = MarkerRow}

\* the row after the first marker row, or the first row after the header
ExpectedDataStart ==
    IF MarkerRows = {} THEN HeaderEnd
    ELSE (CHOOSE i \in MarkerRows : \A j \in MarkerRows : i <= j) + 1

\* C26: in both locators the data begins at the row after the first of the
\* ten rows following the header that holds a section marker of the
\* detected profile, and at the first row after the header when none does:
\* the rows of the located table are the rows of the sheet from there on.
C26_DataStartDiscovery ==
    TableLocated =>
        raw_df.rows = SubSeq(SheetRows, ExpectedDataStart + 1,
                             ExpectedDataStart + Len(raw_df.rows))

\* C26 for the spreadsheet locator alone
C26_ExcelDataStart == (kind = "excel") => C26_DataStartDiscovery

\* a CSV file with two marker lines before its data line
C26_TwoMarkerFile ==
    /\ TableLocated
    /\ kind = "csv"
    /\ SheetRows = <<HeaderRow, EmptyRow, MarkerRow, MarkerRow, Unit101>>
    /\ raw_df.rows = <<Unit101>>

\* the row the locator took as the first data row
LocatedDataStart ==
    IF kind = "excel" THEN ExcelDataStart(grid, HeaderEnd, format_info.profile)
    ELSE CsvDataStart(Lines(file_content), HeaderEnd, format_info.profile)

\* whether the lowercased text of a sheet row holds an end-of-data marker
EndMarkerRow(row) ==
    \E i \in 1..Len(row) :
        /\ ~isna(row[i])
        /\ \E m \in {"summary groups", "future residents/applicants", "totals",
                     "grand total", "property totals", "portfolio summary"} :
               Contains(Lower(row[i]), m)

\* the rows of the sheet at or after start that hold an end-of-data marker
EndRows(start) == {i \in start..(Len(SheetRows) - 1) : EndMarkerRow(SheetRows[i + 1])}

\* the first of them, or the number of rows when there is none
ExpectedDataEnd(start) ==
    IF EndRows(start) = {} THEN Len(SheetRows)
    ELSE CHOOSE i \in EndRows(start) : \A j \in EndRows(start) : i <= j

C27_NoFooterWitness ==
    /\ TableLocated
    /\ kind = "csv"
    /\ SheetRows = <<HeaderRow, EmptyRow, MarkerRow, Unit101, Unit101>>
    /\ raw_df.rows = <<Unit101, Unit101>>
=============================================================================
